---- MODULE Spec2Model ----
(***************************************************************************)
(* Resumable batch delivery engine of importacaoDeDados, direct mode:      *)
(* src/src/services/envioDiretoService.js (the adaptive, duplicate-aware   *)
(* revision, lines 498-1141) on top of src/src/utils/flowchDirectSender.js *)
(*                                                                         *)
(* Records are opaque and identified by their position, so the record      *)
(* array is modelled by its length N and a slice by (start, sent).         *)
(* The remote endpoint is an untrusted black box: every dispatch draws an  *)
(* arbitrary response (status and body) from a bounded set.                *)
(* The wall clock is modelled by the remaining budget                      *)
(* (gwLimitMs - msSafe - elapsed), which every dispatch shrinks by a       *)
(* nondeterministic duration.                                              *)
(*                                                                         *)
(* Two further components are modelled on their own, each with its own     *)
(* specification: one httpJson call of src/src/core/httpClient.js          *)
(* (SpecHttp) and one mapearComLimite call of src/src/utils/concurrency.js *)
(* (SpecPool).  SpecMulti is the controller with SINGLE_BATCH_MODE off.    *)
(*                                                                         *)
(* Functions and older revisions kept in the sources have specifications   *)
(* of their own: calcEffectiveTimeout (SpecTimeout),                       *)
(* computeBackoffWithJitterMs (SpecBackoff), sendBatchesDirectToFlowch     *)
(* (SpecSender), the revision of executarEnvioDireto with the latency      *)
(* predictor, lines 1813-2145 (SpecEma), and one slice of the revision     *)
(* kept in src/src/utils/registros.js (SpecLegacy).                        *)
(***************************************************************************)
EXTENDS Integers, Sequences, FiniteSets, TLC

\* ------------------------------------------------------------------ bounds
MaxRecords == 4      \* |registros| ranges over 1..MaxRecords
MaxBatch   == 2      \* x-batch-size ranges over 0..MaxBatch (0 = use default)
MaxCount   == 2      \* counters reported by the endpoint range over 0..MaxCount
MaxBudget  == 1      \* remaining budget at the start of an invocation: 0..MaxBudget
MaxCost    == 1      \* duration of one dispatch: 0..MaxCost
MaxRecordsMulti == 2 \* |registros| in the multi-slice specification
MaxCalls   == 2 * MaxRecords   \* dispatches followed within one invocation
MaxResolved == 2 * MaxRecords  \* a run is followed while it resolved at most this

\* ------------------------------------------------------- program constants
DefaultNominal == 20 \* Math.max(1, Number(process.env.BATCH_SIZE || 20))
ACCEPT_MODE == "optimistic"

Null == <<>>         \* JavaScript null / undefined
Some(v) == <<v>>

Max(a, b) == IF a >= b THEN a ELSE b
Min(a, b) == IF a <= b THEN a ELSE b

\* ------------------------------------------------------ endpoint responses
\* Parsed response body, reduced to the fields the service reads:
\*   recordsInserted/recordsUpdated/recordsDeleted, the fallback counter
\*   `received`, the number of errors[] entries whose
\*   posapp_fields_error_message value is ALREADY_EXISTS, whether errors[0]
\*   is a schema error (ER_BAD_FIELD_ERROR / 42S22 / unknown column), and
\*   whether the text contains "invalid url".
ServerBodies ==
  { b \in [recordsInserted : 0..MaxCount, recordsUpdated : 0..1,
           recordsDeleted : 0..1, received : 0..1,
           dupEntries : 0..MaxRecords, schemaError : BOOLEAN,
           invalidUrl : {FALSE}] :
      \* at most one of the mutation counters is set in one body
      /\ (b.recordsInserted > 0 =>
            b.recordsUpdated = 0 /\ b.recordsDeleted = 0 /\ b.received = 0)
      /\ (b.recordsUpdated > 0 => b.recordsDeleted = 0 /\ b.received = 0)
      /\ (b.recordsDeleted > 0 => b.received = 0) }

\* enviarLote's catch: a transport failure becomes a synthetic 599 result
\* whose body is {error: message}; the message may be "Invalid URL".
NetworkErrorBody(inv) ==
  [recordsInserted |-> 0, recordsUpdated |-> 0, recordsDeleted |-> 0,
   received |-> 0, dupEntries |-> 0, schemaError |-> FALSE, invalidUrl |-> inv]

Responses ==
  { [statusCode |-> s, body |-> b] : s \in {200, 400}, b \in ServerBodies }
  \cup { [statusCode |-> 599, body |-> NetworkErrorBody(i)] : i \in BOOLEAN }

getStatus(r) == r.statusCode
isOk(r) == getStatus(r) >= 200 /\ getStatus(r) < 300

\* mutant: the synthetic 599 of a failed call is not counted
isCountedAsErrorStatusZero(r) == getStatus(r) = 0

isCountedAsError(r) ==
  IF ACCEPT_MODE = "optimistic"
    THEN getStatus(r) = 0 \/ getStatus(r) = 599
    ELSE ~isOk(r)

\* first truthy value of the prioritized list (a || b)
OrElse(a, b) == IF a # 0 THEN a ELSE b

extractCounts(body) ==
  [inserted |-> OrElse(body.recordsInserted, body.received),
   updated  |-> body.recordsUpdated,
   deleted  |-> body.recordsDeleted,
   alreadyExists |-> body.dupEntries]

\* mutant: only a 400 is taken as "whole batch duplicate"
isWholeBatchDuplicateOnly400(sent, counts, statusCode) ==
  /\ counts.inserted + counts.updated + counts.deleted = 0
  /\ sent > 0
  /\ statusCode = 400 /\ counts.alreadyExists >= sent

isWholeBatchDuplicate(sent, counts, statusCode) ==
  LET totalChanges == counts.inserted + counts.updated + counts.deleted
  IN IF totalChanges > 0 THEN FALSE
     ELSE IF sent <= 0 THEN FALSE
     ELSE IF statusCode = 400 /\ counts.alreadyExists >= sent THEN TRUE
     ELSE counts.alreadyExists >= sent

\* What a response says about a slice of `sent` records, read off the
\* response alone (observation only; the service never computes it):
\*   "invalidurl" synthetic 599 of a call that could not be made at all
\*                 (the endpoint URL does not parse)
\*   "transport"  synthetic 599 of a call that failed in transport
\*   "schema"     schema-class error, no mutation and no duplicate reported
\*   "accepted"   success status and total mutations > 0
\*   "duplicate"  zero mutations and duplicate count >= sent
\*   "ambiguous"  anything else
KindOf(sent, r) ==
  LET mutations == OrElse(r.body.recordsInserted, r.body.received)
                     + r.body.recordsUpdated + r.body.recordsDeleted
  IN IF r.statusCode = 599 /\ r.body.invalidUrl THEN "invalidurl"
     ELSE IF r.statusCode = 599 THEN "transport"
     ELSE IF r.body.schemaError /\ mutations = 0 /\ r.body.dupEntries = 0
       THEN "schema"
     ELSE IF r.statusCode \in 200..299 /\ mutations > 0 THEN "accepted"
     ELSE IF mutations = 0 /\ r.body.dupEntries >= sent THEN "duplicate"
     ELSE "ambiguous"

\* ----------------------------------------------- sendDuplicateAware results
Result(acc, ins, upd, del, skip, errs, used, left, split, fatal) ==
  [accepted |-> acc, inserted |-> ins, updated |-> upd, deleted |-> del,
   skippedDuplicates |-> skip, errosBatchesCountDelta |-> errs,
   batchesUsed |-> used, budgetLeft |-> left, usedAdaptiveSplit |-> split,
   fatalError |-> fatal]

\* sent === 0 on entry
EmptyResult == Result(0, 0, 0, 0, 0, 0, 0, Null, FALSE, "none")

\* budget <= 0 on entry: zero progress, no call
BudgetExhaustedResult(budget) ==
  Result(0, 0, 0, 0, 0, 0, 0, Some(budget), TRUE, "none")

\* Decision taken on the response to one dispatched slice of `sent` records.
\* The slice fits one window (batchSize = min(batchSizeEfetivo, sent) = sent),
\* so sendBatchesDirectToFlowch takes its fast path and returns one result.
\* Yields Null when the slice has to be split.
Decide(sent, r, budget) ==
  LET counts == extractCounts(r.body)
      errosBatchesCountDelta == IF isCountedAsError(r) THEN 1 ELSE 0
      inserted == counts.inserted
      updated  == counts.updated
      deleted  == counts.deleted
      totalChanges == counts.inserted + counts.updated + counts.deleted
      houveProgresso == totalChanges > 0 \/ counts.alreadyExists > 0
  IN IF getStatus(r) = 599 /\ r.body.invalidUrl
       THEN Some(Result(0, 0, 0, 0, 0, errosBatchesCountDelta + 1, 1, Null,
                        FALSE, "invalid_url"))
     ELSE IF ~houveProgresso /\ r.body.schemaError
       THEN Some(Result(0, 0, 0, 0, 0, errosBatchesCountDelta, 1, Null,
                        FALSE, "schema"))
     ELSE IF isOk(r) /\ inserted + updated + deleted > 0
       THEN Some(Result(inserted + updated + deleted, inserted, updated,
                        deleted, 0, errosBatchesCountDelta, 1, Some(budget),
                        FALSE, "none"))
     ELSE IF isWholeBatchDuplicate(sent, counts, getStatus(r))
       THEN Some(Result(0, 0, 0, 0, sent, errosBatchesCountDelta, 1,
                        Some(budget), TRUE, "none"))
     ELSE IF sent = 1
       THEN Some(Result(0, 0, 0, 0, 1, errosBatchesCountDelta, 1,
                        Some(budget), TRUE, "none"))
     ELSE Null

ownErrs(r) == IF isCountedAsError(r) THEN 1 ELSE 0

\* mutant: off by one, the left half of two records is empty
MidTruncated(sent) == (sent - 1) \div 2

\* mutant: peel one record off instead of halving
MidPeelOne(sent) == 1

\* const mid = Math.floor(sent / 2)
Mid(sent) == sent \div 2

\* mutant: the right half is sent from the start index of the slice
rightStartIndexOfSlice(startIndex, mid) == startIndex

\* startIndex of the right half: startIndex + mid
rightStartIndex(startIndex, mid) == startIndex + mid

\* merge of the two halves (the merged object carries no fatalError)
Merge(errosBatchesCountDelta, leftRes, rightRes) ==
  Result(leftRes.accepted + rightRes.accepted,
         leftRes.inserted + rightRes.inserted,
         leftRes.updated + rightRes.updated,
         rightRes.deleted + leftRes.deleted,
         leftRes.skippedDuplicates + rightRes.skippedDuplicates,
         errosBatchesCountDelta + leftRes.errosBatchesCountDelta
           + rightRes.errosBatchesCountDelta,
         1 + leftRes.batchesUsed + rightRes.batchesUsed,
         IF rightRes.budgetLeft # Null THEN rightRes.budgetLeft
                                       ELSE leftRes.budgetLeft,
         TRUE,
         "none")

\* ------------------------------------------------------------------- state
VARIABLES
  N,                 \* todos.length
  batchSize,         \* x-batch-size as sent by the caller (nominal)
  SINGLE_BATCH_MODE, \* process.env.SINGLE_BATCH_MODE
  pc,                \* "idle" | "running" | "responded"
  offsetInicial, batchSugerido,
  indice, fim, aceitosTotais, indiceAceito,
  totais, errosBatchesCount, totalBatches, skippedDuplicates,
  budget,            \* gwLimitMs - msSafe - (Date.now() - iniciouEm)
  stack,             \* activation records of sendDuplicateAware
  ret,               \* value just returned by a sendDuplicateAware call
  retOf,             \* <<start, sent>> of the call that returned it
  lastKind,          \* what the endpoint said in the dispatch just made
  response,          \* the response of the last invocation
  calls,             \* <<start, sent>> of every dispatch of this invocation
  firstBudget,       \* budget when the invocation was entered
  lastRes,           \* result of the last top-level slice
  runResolved,       \* accepted + skipped over all invocations of the run
  enteredExhausted,  \* sendDuplicateAware was entered with budget <= 0
  resolved,          \* indices the endpoint accepted or the service skipped
  cleanRun,          \* batches reported so far, while every answer was clean
  fatalBelow,        \* first fatalError returned by a recursive call ("none")
  \* --- src/src/core/httpClient.js, one httpJson call
  HTTP_MAX_RETRIES,  \* process.env.HTTP_MAX_RETRIES (Null when unset)
  hpc,               \* "idle" | "attempt" | "sleep" | "resolved" | "rejected"
  attemptNumber,
  lastError,
  delayMs,           \* delay of the pending setTimeout (Null when none)
  now,               \* Date.now(), in ms since the call
  attempts,          \* every attempt made: start, end, outcome, delay chosen
  settled,           \* the value httpJson resolved with / the error it threw
  \* --- src/src/utils/concurrency.js, one mapearComLimite call
  ppc,               \* "idle" | "called"
  itens, limite,
  proximoIndice,
  resultados,        \* resultados[i+1] is slot i (Null while empty)
  execucoes,         \* the executar() coroutines: state and indiceAtual
  firstError,        \* error of the first trabalhador call that threw
  poolResult,        \* what the call settled with (kind "pending" before)
  claimed,           \* claimed[i+1]: how many times index i was claimed
  completed,         \* indices in the order their trabalhador call completed
  \* --- calcEffectiveTimeout and the clock of the latency-predicting revision
  apigwSoftTimeoutMs, margemSegurancaMs, timeoutMs,  \* arguments (Null: absent)
  SAFE_REMAINING_MS, REQ_OVERHEAD_MS,                \* process.env (Null: unset)
  elapsed,           \* Date.now() - iniciouEm
  effective,         \* what calcEffectiveTimeout returned (Null before)
  \* --- src/src/core/httpClient.js, one computeBackoffWithJitterMs call
  attemptIdx,        \* the attemptIndex argument
  random,            \* Math.random(), in RandomDen-ths
  backoffMs,         \* the delay returned (Null before)
  \* --- src/src/utils/flowchDirectSender.js, one sendBatchesDirectToFlowch call
  spc,               \* "idle" | "fast" | "loop" | "returned"
  todos, senderBatchSize,
  lotes,
  senderResultados,  \* resultados of the loop
  payloads,          \* body of every enviarLote call, in call order
  aggregated,        \* the value returned (Null before)
  \* --- latency predictor of the revision at lines 1813-2145
  etaAvgMs, etaLastMs,
  numResultados,     \* resultados.length
  slicesMs,          \* duration of every slice of the invocation, in order
  \* --- one slice of the revision kept in src/src/utils/registros.js
  resultado,         \* the DeliveryResult of the slice
  legacyOut,         \* its outcome under either ACCEPT_MODE (Null before)
  \* --- src/src/services/envioIntegracaoService.js, one executarEnvioIntegracao
  ipc,               \* "idle" | "lote" | "responded" | "rejected"
  linhas,            \* the records, by their number
  startOffset, tamanhoLote, concurrency, stopOnError, dryRun,
  offset,            \* of the for loop
  enviados, jaExistiam, erros,
  resumo,            \* the 200/206 returned (Null before, and when it threw)
  requests,          \* requests[g+1]: httpJson calls made for record g
  errosDe,           \* errosDe[g+1]: what record g added to erros
  \* --- src/src/asyncWorker.js, one exports.handler
  apc,               \* "idle" | "preparado" | "finished"
  statusFinal,
  payloadCallback    \* the body posted to callbackUrl (Null: none)

config == <<N, batchSize, SINGLE_BATCH_MODE>>
inputs == <<offsetInicial, batchSugerido, firstBudget>>
cursor == <<indice, fim, aceitosTotais, indiceAceito>>
totals == <<totais, errosBatchesCount, totalBatches, skippedDuplicates>>
run    == <<runResolved>>
sda    == <<stack, ret, retOf>>
hist   == <<enteredExhausted, resolved, cleanRun, fatalBelow>>
directVars == <<config, pc, inputs, cursor, totals, budget, sda, lastKind,
                response, calls, lastRes, run, hist>>
httpVars == <<HTTP_MAX_RETRIES, hpc, attemptNumber, lastError, delayMs, now,
              attempts, settled>>
poolVars == <<ppc, itens, limite, proximoIndice, resultados, execucoes,
              firstError, poolResult, claimed, completed>>
clockVars == <<apigwSoftTimeoutMs, margemSegurancaMs, timeoutMs,
               SAFE_REMAINING_MS, REQ_OVERHEAD_MS, elapsed>>
timeoutVars == <<effective>>
backoffVars == <<attemptIdx, random, backoffMs>>
senderVars == <<spc, todos, senderBatchSize, lotes, senderResultados, payloads,
                aggregated>>
emaVars == <<etaAvgMs, etaLastMs, numResultados, slicesMs>>
legacyVars == <<resultado, legacyOut>>
integracaoVars == <<ipc, linhas, startOffset, tamanhoLote, concurrency,
                    stopOnError, dryRun, offset, enviados, jaExistiam, erros,
                    resumo, requests, errosDe>>
asyncVars == <<apc, statusFinal, payloadCallback>>
moreVars == <<integracaoVars, asyncVars>>
extraVars == <<clockVars, timeoutVars, backoffVars, senderVars, emaVars,
               legacyVars, moreVars>>
vars == <<config, pc, inputs, cursor, totals, budget, sda, lastKind,
          response, calls, lastRes, run, hist, httpVars, poolVars, extraVars>>

Pending == [kind |-> "pending", error |-> Null, value |-> Null]

\* no mapearComLimite call under observation
PoolIdle ==
  /\ ppc = "idle" /\ itens = <<>> /\ limite = 1 /\ proximoIndice = 0
  /\ resultados = <<>> /\ execucoes = <<>> /\ firstError = Null
  /\ poolResult = Pending /\ claimed = <<>> /\ completed = <<>>

\* no httpJson call under observation
HttpIdle ==
  /\ HTTP_MAX_RETRIES = Null /\ hpc = "idle" /\ attemptNumber = 0
  /\ lastError = Null /\ delayMs = Null /\ now = 0
  /\ attempts = <<>> /\ settled = Null

\* no clock under observation
ClockIdle ==
  /\ apigwSoftTimeoutMs = Null /\ margemSegurancaMs = Null /\ timeoutMs = Null
  /\ SAFE_REMAINING_MS = Null /\ REQ_OVERHEAD_MS = Null /\ elapsed = 0

TimeoutIdle == effective = Null

BackoffIdle == attemptIdx = 1 /\ random = 0 /\ backoffMs = Null

SenderIdle ==
  /\ spc = "idle" /\ todos = <<>> /\ senderBatchSize = 1 /\ lotes = <<>>
  /\ senderResultados = <<>> /\ payloads = <<>> /\ aggregated = Null

EmaIdle ==
  /\ etaAvgMs = 0 /\ etaLastMs = 0 /\ numResultados = 0 /\ slicesMs = <<>>

LegacyIdle == resultado = Null /\ legacyOut = Null

IntegracaoIdle ==
  /\ ipc = "idle" /\ linhas = <<>> /\ startOffset = 0 /\ tamanhoLote = 1
  /\ concurrency = 1 /\ stopOnError = FALSE /\ dryRun = FALSE /\ offset = 0
  /\ enviados = 0 /\ jaExistiam = 0 /\ erros = 0 /\ resumo = Null
  /\ requests = <<>> /\ errosDe = <<>>

AsyncIdle == apc = "idle" /\ statusFinal = "COMPLETED" /\ payloadCallback = Null

MoreIdle == IntegracaoIdle /\ AsyncIdle

batchNominal == IF batchSize > 0 THEN batchSize ELSE DefaultNominal
batchEfetivo == IF batchSugerido > 0 THEN batchSugerido ELSE batchNominal

NoResponse == [statusCode |-> 0, nextOffset |-> Null, done |-> FALSE,
               suggest |-> 0, bodySuggest |-> 0, fatal |-> "none",
               headers |-> {}, summary |-> Null]

Frame(start, sent) ==
  [start |-> start, sent |-> sent, stage |-> "enter",
   errosBatchesCountDelta |-> 0, leftRes |-> Null]

Push(s, f) == Append(s, f)
Pop(s) == SubSeq(s, 1, Len(s) - 1)
Top(s) == s[Len(s)]

InitWith(single) ==
  /\ N \in 1..MaxRecords
  /\ batchSize \in 0..MaxBatch
  /\ SINGLE_BATCH_MODE = single
  /\ pc = "idle"
  /\ offsetInicial = 0
  /\ batchSugerido = 0
  /\ firstBudget = 0
  /\ indice = 0 /\ fim = 0 /\ aceitosTotais = 0 /\ indiceAceito = 0
  /\ totais = [recordsInserted |-> 0, recordsUpdated |-> 0, recordsDeleted |-> 0]
  /\ errosBatchesCount = 0 /\ totalBatches = 0 /\ skippedDuplicates = 0
  /\ budget = 0
  /\ stack = <<>>
  /\ ret = Null
  /\ retOf = Null
  /\ lastKind = "none"
  /\ response = NoResponse
  /\ calls = <<>>
  /\ lastRes = Null
  /\ runResolved = 0
  /\ enteredExhausted = FALSE
  /\ resolved = {}
  /\ cleanRun = Some(0)
  /\ fatalBelow = "none"

\* Response builders ------------------------------------------------------
\* buildSummary, evaluated on the accumulators as they are when the response
\* is built (the counts of the summary; the other fields are echoes)
buildSummary ==
  LET changes == totais'.recordsInserted + totais'.recordsUpdated
                   + totais'.recordsDeleted
      confirmados == OrElse(changes, Max(0, indiceAceito' - offsetInicial'))
  IN [enviadasAprox |-> confirmados,
      errosBatches |-> errosBatchesCount',
      totalBatches |-> totalBatches',
      recordsInserted |-> totais'.recordsInserted,
      recordsUpdated |-> totais'.recordsUpdated,
      recordsDeleted |-> totais'.recordsDeleted,
      skippedDuplicates |-> skippedDuplicates']

baseHeaders == {"Content-Type", "x-batch-size", "x-suggest-batch-size"}

\* mutant: the 206 is built with the base headers only
CheckpointBaseHeadersOnly(nextOffsetOut, nextSuggest) ==
  [statusCode |-> 206, nextOffset |-> Some(nextOffsetOut), done |-> FALSE,
   suggest |-> nextSuggest, bodySuggest |-> nextSuggest, fatal |-> "none",
   headers |-> baseHeaders, summary |-> Some(buildSummary)]

Checkpoint(nextOffsetOut, nextSuggest) ==
  [statusCode |-> 206, nextOffset |-> Some(nextOffsetOut), done |-> FALSE,
   suggest |-> nextSuggest, bodySuggest |-> nextSuggest, fatal |-> "none",
   headers |-> baseHeaders \cup {"Retry-After"},
   summary |-> Some(buildSummary)]

Done(nextSuggest) ==
  [statusCode |-> 200, nextOffset |-> Null, done |-> TRUE,
   suggest |-> nextSuggest, bodySuggest |-> 0, fatal |-> "none",
   headers |-> baseHeaders, summary |-> Some(buildSummary)]

\* the body is res.fatalError.body: no summary, no nextOffset
Fatal(kind) ==
  [statusCode |-> 400, nextOffset |-> Null, done |-> FALSE,
   suggest |-> batchEfetivo, bodySuggest |-> 0, fatal |-> kind,
   headers |-> baseHeaders \cup {"Retry-After"}, summary |-> Null]

\* ------------------------------------------------------------- controller
\* while (indice < todos.length) { fim; fatia; sendDuplicateAware(...) }
\* and, past the loop, the final 200.
LoopHead(ind, sug) ==
  LET efetivo == IF sug > 0 THEN sug ELSE batchNominal
      end == Min(ind + efetivo, N)
  IN IF ind < N
       THEN /\ fim' = end
            /\ stack' = <<Frame(ind, end - ind)>>
            /\ pc' = "running"
            /\ response' = NoResponse
       ELSE /\ fim' = fim
            /\ stack' = <<>>
            /\ pc' = "responded"
            /\ response' = Done(0)

\* The caller (re-)invokes: offset 0 and no suggestion at first, afterwards
\* the nextOffset and x-suggest-batch-size of the previous 206.  A run is
\* followed while it resolved at most MaxResolved records and, as long as
\* every answer was clean, reported at most MaxCalls batches.
executarEnvioDireto ==
  /\ \/ pc = "idle"
     \/ pc = "responded" /\ response.statusCode = 206
          /\ runResolved <= MaxResolved
          /\ (cleanRun # Null => cleanRun[1] <= MaxCalls)
  /\ offsetInicial' = IF pc = "idle" THEN 0 ELSE response.nextOffset[1]
  /\ batchSugerido' = IF pc = "idle" THEN 0 ELSE response.suggest
  /\ budget' \in 0..MaxBudget
  /\ firstBudget' = budget'
  /\ indice' = Min(offsetInicial', N)
  /\ indiceAceito' = offsetInicial'
  /\ aceitosTotais' = 0
  /\ totais' = [recordsInserted |-> 0, recordsUpdated |-> 0, recordsDeleted |-> 0]
  /\ errosBatchesCount' = 0 /\ totalBatches' = 0 /\ skippedDuplicates' = 0
  /\ ret' = Null /\ retOf' = Null /\ lastKind' = "none"
  /\ calls' = <<>>
  /\ lastRes' = Null
  /\ LoopHead(indice', batchSugerido')
  /\ enteredExhausted' = FALSE
  /\ resolved' = {}
  /\ fatalBelow' = "none"
  /\ UNCHANGED <<httpVars, poolVars, extraVars, config, run, cleanRun>>

\* --------------------------------------------------------- sendDuplicateAware
\* observation: the slice was answered with a success status and as many
\* mutations as it has records
isClean(sent, r) ==
  LET counts == extractCounts(r.body)
  IN isOk(r) /\ counts.inserted + counts.updated + counts.deleted = sent

\* observation: the records of slice f that the decision dec resolves.  An
\* accepted slice is credited by the count the endpoint reports, and which
\* records of the slice the endpoint took is the endpoint's choice; a slice
\* skipped as duplicate (whole, or the single record left) is skipped whole.
ResolvedBy(f, dec) ==
  LET slice == f.start .. (f.start + f.sent - 1)
  IN IF dec = Null THEN { {} }
     ELSE IF dec[1].accepted > 0
       THEN { S \in SUBSET slice : Cardinality(S) = Min(dec[1].accepted, f.sent) }
     ELSE IF dec[1].skippedDuplicates > 0 THEN { slice }
     ELSE { {} }

AtEntry ==
  /\ pc = "running" /\ ret = Null /\ stack # <<>>
  /\ Top(stack).stage = "enter"

\* if (sent === 0) return {...}; if (budget <= 0) return {...zero progress...}
SdaReturnEarly ==
  /\ AtEntry
  /\ Top(stack).sent = 0 \/ budget <= 0
  /\ ret' = IF Top(stack).sent = 0 THEN Some(EmptyResult)
                                   ELSE Some(BudgetExhaustedResult(budget))
  /\ retOf' = Some(<<Top(stack).start, Top(stack).sent>>)
  /\ lastKind' = "none"
  /\ stack' = Pop(stack)
  /\ enteredExhausted' = (enteredExhausted \/ Top(stack).sent > 0)
  /\ UNCHANGED <<httpVars, poolVars, extraVars, config, pc, inputs, cursor, totals, budget, response,
                 calls, lastRes, run, resolved, cleanRun, fatalBelow>>

\* await sendBatchesDirectToFlowch({records, ...}): the request for the slice
\* leaves and the call chain is suspended until it settles
SdaSend ==
  /\ AtEntry
  /\ Top(stack).sent > 0 /\ budget > 0
  /\ Len(calls) < MaxCalls
  /\ calls' = Append(calls, <<Top(stack).start, Top(stack).sent>>)
  /\ stack' = [stack EXCEPT ![Len(stack)].stage = "await"]
  /\ lastKind' = "none"
  /\ UNCHANGED <<httpVars, poolVars, extraVars, config, pc, inputs, cursor, totals, budget, ret, retOf,
                 response, lastRes, run, hist>>

\* the result of the call arrives, then the decision
SdaDispatch ==
  /\ pc = "running" /\ ret = Null /\ stack # <<>>
  /\ Top(stack).stage = "await"
  /\ \E r \in Responses, d \in 0..MaxCost :
       LET f == Top(stack)
           dec == Decide(f.sent, r, budget)
       IN /\ lastKind' = KindOf(f.sent, r)
          /\ budget' = budget - d
          /\ cleanRun' = IF isClean(f.sent, r) THEN cleanRun ELSE Null
          /\ resolved' \in { resolved \cup S : S \in ResolvedBy(f, dec) }
          /\ fatalBelow' =
               IF fatalBelow = "none" /\ Len(stack) > 1 /\ dec # Null
                 THEN dec[1].fatalError ELSE fatalBelow
          /\ IF dec # Null
               THEN /\ ret' = dec
                    /\ retOf' = Some(<<f.start, f.sent>>)
                    /\ stack' = Pop(stack)
               ELSE /\ ret' = Null
                    /\ retOf' = Null
                    /\ stack' = Push(
                         [stack EXCEPT ![Len(stack)] =
                            [f EXCEPT !.stage = "left",
                                      !.errosBatchesCountDelta = ownErrs(r)]],
                         Frame(f.start, Mid(f.sent)))
  /\ UNCHANGED <<httpVars, poolVars, extraVars, config, pc, inputs, cursor, totals, response, calls,
                 lastRes, run, enteredExhausted>>

\* leftRes arrives; the right half is entered
SdaLeftReturn ==
  /\ pc = "running" /\ ret # Null /\ stack # <<>>
  /\ Top(stack).stage = "left"
  /\ LET f == Top(stack)
         mid == Mid(f.sent)
     IN stack' = Push(
          [stack EXCEPT ![Len(stack)] =
             [f EXCEPT !.stage = "right", !.leftRes = ret]],
          Frame(rightStartIndex(f.start, mid), f.sent - mid))
  /\ ret' = Null /\ retOf' = Null /\ lastKind' = "none"
  /\ UNCHANGED <<httpVars, poolVars, extraVars, config, pc, inputs, cursor, totals, budget, response,
                 calls, lastRes, run, hist>>

\* rightRes arrives; the merged result is returned
SdaRightReturn ==
  /\ pc = "running" /\ ret # Null /\ stack # <<>>
  /\ Top(stack).stage = "right"
  /\ LET f == Top(stack)
     IN /\ ret' = Some(Merge(f.errosBatchesCountDelta, f.leftRes[1], ret[1]))
        /\ retOf' = Some(<<f.start, f.sent>>)
  /\ lastKind' = "none"
  /\ stack' = Pop(stack)
  /\ UNCHANGED <<httpVars, poolVars, extraVars, config, pc, inputs, cursor, totals, budget, response,
                 calls, lastRes, run, hist>>

\* ------------------------------------------- controller, after the await
AtResult == pc = "running" /\ ret # Null /\ stack = <<>>

progressoOf(res) == res.accepted + res.skippedDuplicates

\* if (res.fatalError && progressoFatia === 0) return {statusCode 4xx ...}
ControllerFatal ==
  /\ AtResult
  /\ ret[1].fatalError # "none" /\ progressoOf(ret[1]) = 0
  /\ response' = Fatal(ret[1].fatalError)
  /\ pc' = "responded"
  /\ lastRes' = ret
  /\ ret' = Null
  /\ UNCHANGED <<httpVars, poolVars, extraVars, config, inputs, cursor, totals, budget, stack, retOf,
                 lastKind, calls, run, hist>>

\* mutant: after a split the suggestion is kept as it came (possibly 0)
nextSuggestOfAsCame(res) ==
  IF progressoOf(res) = 0 THEN Max(1, batchEfetivo \div 2)
  ELSE IF res.usedAdaptiveSplit THEN batchSugerido
  ELSE 0

nextSuggestOf(res) ==
  IF progressoOf(res) = 0 THEN Max(1, batchEfetivo \div 2)
  ELSE IF res.usedAdaptiveSplit
    THEN (IF batchSugerido > 0 THEN batchSugerido ELSE batchEfetivo)
  ELSE 0

nextOffsetOutOf(res, aceito) ==
  IF progressoOf(res) > 0 THEN aceito ELSE offsetInicial

\* consolidation of the metrics of one top-level slice
Consolidate(res) ==
  /\ totais' = [recordsInserted |-> totais.recordsInserted + res.inserted,
                recordsUpdated  |-> totais.recordsUpdated + res.updated,
                recordsDeleted  |-> totais.recordsDeleted + res.deleted]
  /\ errosBatchesCount' = errosBatchesCount + res.errosBatchesCountDelta
  /\ totalBatches' = totalBatches + Max(1, res.batchesUsed)
  /\ skippedDuplicates' = skippedDuplicates + res.skippedDuplicates
  /\ aceitosTotais' = aceitosTotais + progressoOf(res)
  /\ indiceAceito' = offsetInicial + aceitosTotais'
  /\ runResolved' = runResolved + progressoOf(res)
  /\ lastRes' = Some(res)
  /\ cleanRun' = IF cleanRun = Null THEN Null
                 ELSE Some(cleanRun[1] + Max(1, res.batchesUsed))
  /\ UNCHANGED <<enteredExhausted, resolved, fatalBelow>>

temMais == fim < N

\* SINGLE_BATCH_MODE: answer after one top-level slice
ControllerSingle ==
  /\ AtResult
  /\ ~(ret[1].fatalError # "none" /\ progressoOf(ret[1]) = 0)
  /\ SINGLE_BATCH_MODE
  /\ UNCHANGED inputs
  /\ Consolidate(ret[1])
  /\ indice' = fim
  /\ response' = IF temMais
                   THEN Checkpoint(nextOffsetOutOf(ret[1], indiceAceito'),
                                   nextSuggestOf(ret[1]))
                   ELSE Done(nextSuggestOf(ret[1]))
  /\ pc' = "responded"
  /\ ret' = Null
  /\ UNCHANGED <<httpVars, poolVars, extraVars, config, fim, budget, stack, retOf, lastKind, calls>>

\* mutant: the budget a slice reports back is not looked at
budgetLeftIgnored(res) == 1

\* res.budgetLeft ?? 1
budgetLeftOrOne(res) == IF res.budgetLeft # Null THEN res.budgetLeft[1] ELSE 1

\* multi-slice mode: if ((res.budgetLeft ?? 1) <= 0) return 206
ControllerMultiCheckpoint ==
  /\ AtResult
  /\ ~(ret[1].fatalError # "none" /\ progressoOf(ret[1]) = 0)
  /\ ~SINGLE_BATCH_MODE
  /\ budgetLeftOrOne(ret[1]) <= 0
  /\ UNCHANGED inputs
  /\ Consolidate(ret[1])
  /\ indice' = Max(indiceAceito', indice)
  /\ response' = Checkpoint(nextOffsetOutOf(ret[1], indiceAceito'),
                            nextSuggestOf(ret[1]))
  /\ pc' = "responded"
  /\ ret' = Null
  /\ UNCHANGED <<httpVars, poolVars, extraVars, config, fim, budget, stack, retOf, lastKind, calls>>

\* multi-slice mode: next iteration of the while loop, or the final 200
ControllerMultiContinue ==
  /\ AtResult
  /\ ~(ret[1].fatalError # "none" /\ progressoOf(ret[1]) = 0)
  /\ ~SINGLE_BATCH_MODE
  /\ budgetLeftOrOne(ret[1]) > 0
  /\ UNCHANGED inputs
  /\ Consolidate(ret[1])
  /\ indice' = Max(indiceAceito', indice)
  /\ ret' = Null
  /\ LoopHead(indice', batchSugerido)
  /\ UNCHANGED <<httpVars, poolVars, extraVars, config, budget, retOf, lastKind, calls>>

\* SINGLE_BATCH_MODE = '1' is the default (one top-level slice per invocation)
ExtraIdle ==
  ClockIdle /\ TimeoutIdle /\ BackoffIdle /\ SenderIdle /\ EmaIdle /\ LegacyIdle /\ MoreIdle

Init == InitWith(TRUE) /\ HttpIdle /\ PoolIdle /\ ExtraIdle

Next ==
  \/ executarEnvioDireto
  \/ SdaReturnEarly
  \/ SdaSend
  \/ SdaDispatch
  \/ SdaLeftReturn
  \/ SdaRightReturn
  \/ ControllerFatal
  \/ ControllerSingle

Spec == Init /\ [][Next]_vars

\* The event loop runs every continuation of an invocation, and every HTTP
\* call returns (a response, or the synthetic 599 after the timeout); the
\* caller is free to stop re-invoking.
Service ==
  \/ SdaReturnEarly
  \/ SdaSend
  \/ SdaDispatch
  \/ SdaLeftReturn
  \/ SdaRightReturn
  \/ ControllerFatal
  \/ ControllerSingle

FairSpec == Spec /\ WF_vars(Service)

\* SINGLE_BATCH_MODE = '0': the controller keeps looping while budget remains
InitMulti ==
  InitWith(FALSE) /\ N <= MaxRecordsMulti /\ HttpIdle /\ PoolIdle /\ ExtraIdle

NextMulti ==
  \/ executarEnvioDireto
  \/ SdaReturnEarly
  \/ SdaSend
  \/ SdaDispatch
  \/ SdaLeftReturn
  \/ SdaRightReturn
  \/ ControllerFatal
  \/ ControllerMultiCheckpoint
  \/ ControllerMultiContinue

SpecMulti == InitMulti /\ [][NextMulti]_vars

\* ------------------------------------------------- a run that is kept going
\* The caller re-invokes after every 206 with the nextOffset and the
\* x-suggest-batch-size it was given, and the invocation starts with budget
\* left (lines 911-922 read the two values).  The observations kept over the
\* run are cleared: they play no part in whether the run ends.
reinvocar ==
  /\ pc = "responded" /\ response.statusCode = 206
  /\ offsetInicial' = response.nextOffset[1]
  /\ batchSugerido' = response.suggest
  /\ budget' \in 1..MaxBudget
  /\ firstBudget' = budget'
  /\ indice' = Min(offsetInicial', N)
  /\ indiceAceito' = offsetInicial'
  /\ aceitosTotais' = 0
  /\ totais' = [recordsInserted |-> 0, recordsUpdated |-> 0, recordsDeleted |-> 0]
  /\ errosBatchesCount' = 0 /\ totalBatches' = 0 /\ skippedDuplicates' = 0
  /\ ret' = Null /\ retOf' = Null /\ lastKind' = "none"
  /\ calls' = <<>>
  /\ lastRes' = Null
  /\ LoopHead(indice', batchSugerido')
  /\ enteredExhausted' = FALSE
  /\ resolved' = {}
  /\ fatalBelow' = "none"
  /\ runResolved' = 0 /\ cleanRun' = Null
  /\ UNCHANGED <<httpVars, poolVars, extraVars, config>>

\* the first invocation of the run, with budget left
primeiraInvocacao ==
  /\ pc = "idle"
  /\ executarEnvioDireto
  /\ budget' > 0

NextLive ==
  \/ primeiraInvocacao
  \/ reinvocar
  \/ SdaReturnEarly
  \/ SdaSend
  \/ SdaDispatch
  \/ SdaLeftReturn
  \/ SdaRightReturn
  \/ ControllerFatal
  \/ ControllerSingle

\* every continuation of an invocation runs, every HTTP call returns, and
\* the caller keeps re-invoking
SpecLive ==
  /\ Init /\ [][NextLive]_vars
  /\ WF_vars(Service) /\ WF_vars(primeiraInvocacao) /\ WF_vars(reinvocar)

ServiceMulti ==
  \/ SdaReturnEarly
  \/ SdaSend
  \/ SdaDispatch
  \/ SdaLeftReturn
  \/ SdaRightReturn
  \/ ControllerFatal
  \/ ControllerMultiCheckpoint
  \/ ControllerMultiContinue

NextLiveMulti ==
  \/ primeiraInvocacao
  \/ reinvocar
  \/ SdaReturnEarly
  \/ SdaSend
  \/ SdaDispatch
  \/ SdaLeftReturn
  \/ SdaRightReturn
  \/ ControllerFatal
  \/ ControllerMultiCheckpoint
  \/ ControllerMultiContinue

SpecLiveMulti ==
  /\ InitMulti /\ [][NextLiveMulti]_vars
  /\ WF_vars(ServiceMulti) /\ WF_vars(primeiraInvocacao) /\ WF_vars(reinvocar)

\* ================================== src/src/core/httpClient.js: httpJson
MaxRetriesEnv == 2        \* HTTP_MAX_RETRIES ranges over unset, 0..MaxRetriesEnv
MaxLate == 1              \* a timer fires 0..MaxLate ms after its delay
DefaultMaxRetries == 2    \* Number(process.env.HTTP_MAX_RETRIES || 2)
BackoffBaseMs == 250      \* computeBackoffWithJitterMs: baseMs
BackoffCapMs == 4000      \* computeBackoffWithJitterMs: capMs
JitterCapMs == 500        \* Math.min(500, expo)

DEFAULT_MAX_RETRIES ==
  IF HTTP_MAX_RETRIES = Null THEN DefaultMaxRetries
                             ELSE Max(0, HTTP_MAX_RETRIES[1])

\* The Retry-After header of a response, as the string the server sent:
\* absent, empty, a number of seconds, an HTTP-date (the instant it names,
\* in ms), or text that is neither.
NoRetryAfter == [kind |-> "absent", value |-> 0]
RetryAfterSeconds == {-1, 0, 2}
RetryAfterDateOffsets == {-1000, 3000}
RetryAfterHeaders(t) ==
  {NoRetryAfter, [kind |-> "empty", value |-> 0], [kind |-> "junk", value |-> 0]}
  \cup {[kind |-> "seconds", value |-> v] : v \in RetryAfterSeconds}
  \cup {[kind |-> "date", value |-> t + o] : o \in RetryAfterDateOffsets}

HttpStatuses == {200, 404, 408, 429, 500, 599, 600}
ErrorCodes == {"ETIMEDOUT", "ECONNRESET", "EAI_AGAIN", "ECONNREFUSED",
               "ENOTFOUND", "EPIPE", "none"}

\* What one doSingleAttempt ends with: a response {statusCode, headers, body}
\* or an error (err.code; "none" when the error carries no code).
Outcomes(t) ==
  {[type |-> "response", statusCode |-> st, retryAfter |-> h, code |-> "none"] :
      st \in HttpStatuses, h \in RetryAfterHeaders(t)}
  \cup {[type |-> "error", statusCode |-> 0, retryAfter |-> NoRetryAfter,
         code |-> c] : c \in ErrorCodes}

\* mutant: every status from 400 up is retried
isRetryableStatusFrom400(statusCode) == statusCode >= 400 /\ statusCode < 600

isRetryableStatus(statusCode) ==
  statusCode = 408 \/ statusCode = 429
    \/ (statusCode >= 500 /\ statusCode < 600)

isTransientNetworkError(err) ==
  err.code \in {"ETIMEDOUT", "ECONNRESET", "EAI_AGAIN", "ECONNREFUSED",
                "ENOTFOUND"}

\* mutant: the number of seconds is taken as milliseconds
parseRetryAfterMsUnscaled(ra, t) ==
  IF ra.kind \in {"absent", "empty"} THEN Null
  ELSE IF ra.kind = "seconds" THEN Some(Max(0, ra.value))
  ELSE IF ra.kind = "date" THEN Some(Max(0, ra.value - t))
  ELSE Null

\* if (!ra) return null; Number(ra) finite: seconds * 1000; Date.parse(ra)
\* finite: date - Date.now(); both clamped at 0; otherwise null
parseRetryAfterMs(ra, t) ==
  IF ra.kind \in {"absent", "empty"} THEN Null
  ELSE IF ra.kind = "seconds" THEN Some(Max(0, ra.value * 1000))
  ELSE IF ra.kind = "date" THEN Some(Max(0, ra.value - t))
  ELSE Null

expoOf(attemptIndex) ==
  Min(BackoffCapMs, BackoffBaseMs * 2 ^ (attemptIndex - 1))

\* the values Math.floor(Math.random() * Math.min(500, expo)) is followed for
JitterSamples(attemptIndex) ==
  {0, Min(JitterCapMs, expoOf(attemptIndex)) - 1}

\* mutant: the jitter is taken off the exponential delay
computeBackoffJitterSubtracted(attemptIndex, jitter) ==
  expoOf(attemptIndex) - jitter

computeBackoffWithJitterMs(attemptIndex, jitter) ==
  expoOf(attemptIndex) + jitter

\* mutant: a retryable status of the last attempt is thrown
afterAttemptThrowOnExhaust(o, n, maxRetries, t, jitter) ==
  IF o.type = "response"
    THEN IF isRetryableStatus(o.statusCode)
           THEN IF n <= maxRetries
                  THEN [next |-> "sleep",
                        delay |-> Some(computeBackoffWithJitterMs(n, jitter))]
                  ELSE [next |-> "rejected", delay |-> Null]
           ELSE [next |-> "resolved", delay |-> Null]
    ELSE [next |-> "rejected", delay |-> Null]

\* body of the for loop of runWithRetries, once the attempt has ended
afterAttempt(o, n, maxRetries, t, jitter) ==
  IF o.type = "response"
    THEN IF isRetryableStatus(o.statusCode) /\ n <= maxRetries
           THEN LET retryAfterMs == parseRetryAfterMs(o.retryAfter, t)
                IN [next |-> "sleep",
                    delay |-> IF retryAfterMs # Null THEN retryAfterMs
                              ELSE Some(computeBackoffWithJitterMs(n, jitter))]
           ELSE [next |-> "resolved", delay |-> Null]
    ELSE IF n <= maxRetries /\ isTransientNetworkError(o)
           THEN [next |-> "sleep",
                 delay |-> Some(computeBackoffWithJitterMs(n, jitter))]
           ELSE [next |-> "rejected", delay |-> Null]

Attempt(t) == [startedAt |-> t, endedAt |-> t, outcome |-> Null, delay |-> Null]

\* httpJson(urlStr, ...): new URL(urlStr) throws on a malformed URL, before
\* any attempt; otherwise runWithRetries starts attempt 1
httpJson ==
  /\ hpc = "idle"
  /\ \E urlOk \in BOOLEAN :
       IF urlOk
         THEN /\ hpc' = "attempt"
              /\ attemptNumber' = 1
              /\ attempts' = <<Attempt(now)>>
              /\ settled' = Null
         ELSE /\ hpc' = "rejected"
              /\ attemptNumber' = 0
              /\ attempts' = <<>>
              /\ settled' = Some([type |-> "error", statusCode |-> 0,
                                  retryAfter |-> NoRetryAfter,
                                  code |-> "ERR_INVALID_URL"])
  /\ UNCHANGED <<directVars, poolVars, extraVars, HTTP_MAX_RETRIES, lastError, delayMs, now>>

\* doSingleAttempt(attemptNumber) ends; return, throw, or wait and continue
runWithRetries ==
  /\ hpc = "attempt"
  /\ \E o \in Outcomes(now), jitter \in JitterSamples(attemptNumber) :
       LET step == afterAttempt(o, attemptNumber, DEFAULT_MAX_RETRIES, now,
                                jitter)
       IN /\ hpc' = step.next
          /\ delayMs' = step.delay
          /\ lastError' = IF o.type = "error" THEN Some(o) ELSE lastError
          /\ settled' = IF step.next = "sleep" THEN Null ELSE Some(o)
          /\ attempts' = [attempts EXCEPT ![Len(attempts)] =
                            [@ EXCEPT !.endedAt = now, !.outcome = Some(o),
                                      !.delay = step.delay]]
  /\ UNCHANGED <<directVars, poolVars, extraVars, HTTP_MAX_RETRIES, attemptNumber, now>>

\* await new Promise(r => setTimeout(r, delayMs)); continue
retryTimer ==
  /\ hpc = "sleep"
  /\ \E late \in 0..MaxLate :
       /\ now' = now + delayMs[1] + late
       /\ attempts' = Append(attempts, Attempt(now'))
  /\ attemptNumber' = attemptNumber + 1
  /\ hpc' = "attempt"
  /\ delayMs' = Null
  /\ UNCHANGED <<directVars, poolVars, extraVars, HTTP_MAX_RETRIES, lastError, settled>>

InitHttp ==
  /\ InitWith(TRUE) /\ N = 1 /\ batchSize = 0
  /\ HTTP_MAX_RETRIES \in {Null} \cup {Some(n) : n \in 0..MaxRetriesEnv}
  /\ hpc = "idle" /\ attemptNumber = 0
  /\ lastError = Null /\ delayMs = Null /\ now = 0
  /\ attempts = <<>> /\ settled = Null
  /\ PoolIdle /\ ExtraIdle

NextHttp ==
  \/ httpJson
  \/ runWithRetries
  \/ retryTimer

SpecHttp == InitHttp /\ [][NextHttp]_vars

\* ============================ src/src/utils/concurrency.js: mapearComLimite
MaxItems == 3        \* itens.length ranges over 0..MaxItems
MaxLimit == 3        \* limite ranges over 1..MaxLimit (callers pass >= 1)
Items == {"a", "b"}
ItemSeqs == UNION {[1..n -> Items] : n \in 0..MaxItems}

\* the worker, as a function of its two arguments
trabalhador(item, indiceNoLote) == <<item, indiceNoLote>>

\* mutant: one coroutine more than the limit
numExecucoesPlusOne(lim, n) == lim + 1

\* for (let k = 0; k < Math.min(limite, itens.length); k++)
numExecucoes(lim, n) == Min(lim, n)

\* mutant: wait for every coroutine and deliver the array whatever happened
PromiseAllSettled(ex, err, res) ==
  IF \A k \in 1..Len(ex) : ex[k].state # "awaiting"
    THEN Some([kind |-> "resolved", error |-> Null, value |-> Some(res)])
    ELSE Null

\* await Promise.all(execucoes); return resultados
\* Null while the call cannot settle yet.
PromiseAll(ex, err, res) ==
  IF \E k \in 1..Len(ex) : ex[k].state = "failed"
    THEN Some([kind |-> "rejected", error |-> err, value |-> Null])
  ELSE IF \A k \in 1..Len(ex) : ex[k].state = "done"
    THEN Some([kind |-> "resolved", error |-> Null, value |-> Some(res)])
  ELSE Null

\* The call: the coroutines are started one after the other, each running
\* up to its first await - it claims the next index and calls the worker.
mapearComLimite ==
  /\ ppc = "idle"
  /\ \E its \in ItemSeqs, lim \in 1..MaxLimit :
       LET n == Len(its)
           m == numExecucoes(lim, n)
       IN /\ itens' = its
          /\ limite' = lim
          /\ resultados' = [i \in 1..n |-> Null]
          /\ execucoes' = [k \in 1..m |->
                             [state |-> IF k - 1 >= n THEN "done" ELSE "awaiting",
                              indiceAtual |-> k - 1]]
          /\ proximoIndice' = m
          /\ claimed' = [i \in 1..n |-> IF i <= m THEN 1 ELSE 0]
  /\ ppc' = "called"
  /\ firstError' = Null /\ poolResult' = Pending /\ completed' = <<>>
  /\ UNCHANGED <<directVars, httpVars, extraVars>>

\* A worker call ends. Fulfilled: the slot is written and the coroutine
\* claims the next index (proximoIndice++), returning when none is left.
\* Thrown: the coroutine rejects.
executar ==
  /\ ppc = "called"
  /\ \E k \in 1..Len(execucoes), ok \in BOOLEAN :
       /\ execucoes[k].state = "awaiting"
       /\ LET i == execucoes[k].indiceAtual
              nxt == proximoIndice
          IN IF ok
               THEN /\ resultados' = [resultados EXCEPT ![i + 1] =
                                        Some(trabalhador(itens[i + 1], i))]
                    /\ completed' = Append(completed, i)
                    /\ proximoIndice' = proximoIndice + 1
                    /\ execucoes' = [execucoes EXCEPT ![k] =
                         [state |-> IF nxt >= Len(itens) THEN "done"
                                                         ELSE "awaiting",
                          indiceAtual |-> nxt]]
                    /\ claimed' = IF nxt >= Len(itens) THEN claimed
                                  ELSE [claimed EXCEPT ![nxt + 1] = @ + 1]
                    /\ firstError' = firstError
               ELSE /\ execucoes' = [execucoes EXCEPT ![k].state = "failed"]
                    /\ firstError' = IF firstError = Null
                                       THEN Some(<<"erro", i>>)
                                       ELSE firstError
                    /\ UNCHANGED <<resultados, completed, proximoIndice,
                                   claimed>>
  /\ UNCHANGED <<directVars, httpVars, extraVars, ppc, itens, limite, poolResult>>

\* Promise.all settles and mapearComLimite returns the array or rejects
poolSettles ==
  /\ ppc = "called" /\ poolResult.kind = "pending"
  /\ PromiseAll(execucoes, firstError, resultados) # Null
  /\ poolResult' = PromiseAll(execucoes, firstError, resultados)[1]
  /\ UNCHANGED <<directVars, httpVars, extraVars, ppc, itens, limite, proximoIndice,
                 resultados, execucoes, firstError, claimed, completed>>

InitPool ==
  /\ InitWith(TRUE) /\ N = 1 /\ batchSize = 0
  /\ HttpIdle
  /\ PoolIdle /\ ExtraIdle

NextPool ==
  \/ mapearComLimite
  \/ executar
  \/ poolSettles

SpecPool == InitPool /\ [][NextPool]_vars

\* ===== src/src/services/envioDiretoService.js: calcEffectiveTimeout
GatewayLimitMs == 29000      \* default of apigwSoftTimeoutMs
SafeRemainingMs == 4000      \* default of process.env.SAFE_REMAINING_MS
LAMBDA_TIMEOUT_MS == 25000
ReqOverheadMs == 200         \* default of process.env.REQ_OVERHEAD_MS
MinOverheadMs == 50          \* Math.max(50, ...)
MinRequestBudgetMs == 1000   \* Math.max(1000, budget - overheadMs)
MinTimeoutMs == 800          \* Math.max(800, ...)

\* the inputs followed
GatewayLimits == {Null, Some(10000)}
SafetyMargins == {Null, Some(1000)}
SafeRemainingEnvs == {Null, Some(2000)}
ReqOverheadEnvs == {Null, Some(0), Some(100)}
CallerTimeouts == {Null, Some(500), Some(850), Some(5000), Some(30000)}
ElapsedSamples == {0, 7900, 8000, 8100, 8850, 9500, 24000, 30000}

\* Number.isFinite(x) ? x : d
FiniteOr(x, d) == IF x # Null THEN x[1] ELSE d

\* Number(process.env.X || d), X a numeric string when set
EnvOr(x, d) == IF x # Null THEN x[1] ELSE d

\* mutant: no floor under the minimum of caller timeout and request budget
calcEffectiveTimeoutNoFloor(gw, margem, tmo, el, safeEnv, overheadEnv) ==
  LET gwLimitMs == FiniteOr(gw, GatewayLimitMs)
      msSafe == FiniteOr(margem, EnvOr(safeEnv, SafeRemainingMs))
      budgetMs == gwLimitMs - msSafe - el
      timeoutBase == FiniteOr(tmo, LAMBDA_TIMEOUT_MS)
      overheadMs == Max(MinOverheadMs, EnvOr(overheadEnv, ReqOverheadMs))
      budgetRequisicao == Max(MinRequestBudgetMs, budgetMs - overheadMs)
  IN [effectiveTimeoutMs |-> Min(timeoutBase, budgetRequisicao),
      budget |-> budgetMs]

calcEffectiveTimeout(gw, margem, tmo, el, safeEnv, overheadEnv) ==
  LET gwLimitMs == FiniteOr(gw, GatewayLimitMs)
      msSafe == FiniteOr(margem, EnvOr(safeEnv, SafeRemainingMs))
      budgetMs == gwLimitMs - msSafe - el
      timeoutBase == FiniteOr(tmo, LAMBDA_TIMEOUT_MS)
      overheadMs == Max(MinOverheadMs, EnvOr(overheadEnv, ReqOverheadMs))
      budgetRequisicao == Max(MinRequestBudgetMs, budgetMs - overheadMs)
      effectiveTimeoutMs ==
        Max(MinTimeoutMs, Min(timeoutBase, budgetRequisicao))
  IN [effectiveTimeoutMs |-> effectiveTimeoutMs, budget |-> budgetMs]

\* const { effectiveTimeoutMs, budget } = calcEffectiveTimeout({...})
callCalcEffectiveTimeout ==
  /\ effective = Null
  /\ effective' = Some(calcEffectiveTimeout(apigwSoftTimeoutMs,
                          margemSegurancaMs, timeoutMs, elapsed,
                          SAFE_REMAINING_MS, REQ_OVERHEAD_MS))
  /\ UNCHANGED <<directVars, httpVars, poolVars, clockVars, backoffVars,
                 senderVars, emaVars, legacyVars, moreVars>>

InitTimeout ==
  /\ InitWith(TRUE) /\ N = 1 /\ batchSize = 0
  /\ HttpIdle /\ PoolIdle
  /\ apigwSoftTimeoutMs \in GatewayLimits
  /\ margemSegurancaMs \in SafetyMargins
  /\ timeoutMs \in CallerTimeouts
  /\ SAFE_REMAINING_MS \in SafeRemainingEnvs
  /\ REQ_OVERHEAD_MS \in ReqOverheadEnvs
  /\ elapsed \in ElapsedSamples
  /\ TimeoutIdle /\ BackoffIdle /\ SenderIdle /\ EmaIdle /\ LegacyIdle /\ MoreIdle

NextTimeout == callCalcEffectiveTimeout

SpecTimeout == InitTimeout /\ [][NextTimeout]_vars

\* ===== one call of sendDuplicateAware on the clock: the budget test at its
\* entry (lines 696-705) and the attempts httpJson makes for the slice
ShortAttemptMs == 1    \* an attempt that is answered at once lasts this long

\* the inputs followed
BudgetGatewayLimits == {Null, Some(10000)}
BudgetCallerTimeouts == {Null, Some(5000)}
BudgetElapsedSamples == {0, 5000, 5900, 6000, 24000, 24900, 25000}
BudgetOutcomes ==
  {[type |-> "response", statusCode |-> 200, retryAfter |-> NoRetryAfter,
    code |-> "none"],
   [type |-> "response", statusCode |-> 500, retryAfter |-> NoRetryAfter,
    code |-> "none"],
   [type |-> "response", statusCode |-> 429,
    retryAfter |-> [kind |-> "seconds", value |-> 2], code |-> "none"],
   [type |-> "error", statusCode |-> 0, retryAfter |-> NoRetryAfter,
    code |-> "ECONNRESET"],
   [type |-> "error", statusCode |-> 0, retryAfter |-> NoRetryAfter,
    code |-> "EPIPE"]}

\* req.setTimeout(timeoutMs, ...): the attempt is destroyed with ETIMEDOUT
TimedOut == [type |-> "error", statusCode |-> 0, retryAfter |-> NoRetryAfter,
             code |-> "ETIMEDOUT"]

\* Date.now() - iniciouEm at instant t, and the budget left at that instant
budgetAt(t) ==
  calcEffectiveTimeout(apigwSoftTimeoutMs, margemSegurancaMs, timeoutMs, t,
                       SAFE_REMAINING_MS, REQ_OVERHEAD_MS).budget

\* if (budget <= 0) return {... budgetLeft: budget ...}
budgetExhausted(b) == b <= 0

\* sendDuplicateAware up to its first await: calcEffectiveTimeout, the budget
\* test, and sendBatchesDirectToFlowch -> enviarLote -> httpJson, attempt 1
sendDuplicateAwareOnClock ==
  /\ hpc = "idle" /\ effective = Null
  /\ LET c == calcEffectiveTimeout(apigwSoftTimeoutMs, margemSegurancaMs,
                                   timeoutMs, elapsed, SAFE_REMAINING_MS,
                                   REQ_OVERHEAD_MS)
     IN /\ effective' = Some(c)
        /\ IF budgetExhausted(c.budget)
             THEN UNCHANGED <<hpc, attemptNumber, attempts>>
             ELSE /\ hpc' = "attempt"
                  /\ attemptNumber' = 1
                  /\ attempts' = <<Attempt(elapsed)>>
  /\ now' = elapsed
  /\ UNCHANGED <<directVars, poolVars, clockVars, backoffVars, senderVars,
                 emaVars, legacyVars, moreVars, HTTP_MAX_RETRIES, lastError, delayMs,
                 settled>>

\* doSingleAttempt(attemptNumber) ends - answered, failed, or destroyed by
\* its timeout after effectiveTimeoutMs - and the loop of runWithRetries
\* returns, throws, or waits and continues
doSingleAttempt ==
  /\ hpc = "attempt" /\ effective # Null
  /\ \E timedOut \in BOOLEAN, answered \in BudgetOutcomes,
        jitter \in JitterSamples(attemptNumber) :
       LET o == IF timedOut THEN TimedOut ELSE answered
           d == IF timedOut THEN effective[1].effectiveTimeoutMs
                            ELSE Min(ShortAttemptMs,
                                     effective[1].effectiveTimeoutMs)
           step == afterAttempt(o, attemptNumber, DEFAULT_MAX_RETRIES,
                                now + d, jitter)
       IN /\ now' = now + d
          /\ hpc' = step.next
          /\ delayMs' = step.delay
          /\ lastError' = IF o.type = "error" THEN Some(o) ELSE lastError
          /\ settled' = IF step.next = "sleep" THEN Null ELSE Some(o)
          /\ attempts' = [attempts EXCEPT ![Len(attempts)] =
                            [@ EXCEPT !.endedAt = now + d, !.outcome = Some(o),
                                      !.delay = step.delay]]
  /\ UNCHANGED <<directVars, poolVars, extraVars, HTTP_MAX_RETRIES,
                 attemptNumber>>

InitBudget ==
  /\ InitWith(TRUE) /\ N = 1 /\ batchSize = 0
  /\ PoolIdle
  /\ HTTP_MAX_RETRIES \in {Null} \cup {Some(n) : n \in 0..MaxRetriesEnv}
  /\ hpc = "idle" /\ attemptNumber = 0
  /\ lastError = Null /\ delayMs = Null /\ now = 0
  /\ attempts = <<>> /\ settled = Null
  /\ apigwSoftTimeoutMs \in BudgetGatewayLimits
  /\ margemSegurancaMs = Null
  /\ timeoutMs \in BudgetCallerTimeouts
  /\ SAFE_REMAINING_MS = Null
  /\ REQ_OVERHEAD_MS = Null
  /\ elapsed \in BudgetElapsedSamples
  /\ TimeoutIdle /\ BackoffIdle /\ SenderIdle /\ EmaIdle /\ LegacyIdle /\ MoreIdle

NextBudget ==
  \/ sendDuplicateAwareOnClock
  \/ doSingleAttempt
  \/ retryTimer

SpecBudget == InitBudget /\ [][NextBudget]_vars

\* ===== src/src/services/envioIntegracaoService.js: executarEnvioIntegracao
MaxLinhas == 3         \* linhas.length ranges over 0..MaxLinhas
MaxTamanhoLote == 3    \* batchSize ranges over 1..MaxTamanhoLote
MaxConcurrency == 2    \* concurrency ranges over 1..MaxConcurrency

\* linhas.slice(offset, offset + batchSize)
loteDe(ls, off, tam) == SubSeq(ls, off + 1, Min(off + tam, Len(ls)))

\* what the worker does up to its first await when it is called for the
\* records of indices from..to-1 of the lote: enviados++ on a dry run,
\* otherwise the httpJson request leaves
enviadosAoChamar(dry, from, to) == IF dry THEN Max(0, to - from) ELSE 0
requestsAoChamar(req, dry, off, from, to) ==
  [g \in 1..Len(req) |->
     IF ~dry /\ g - 1 >= off + from /\ g - 1 < off + to THEN req[g] + 1
                                                        ELSE req[g]]

\* respostaJson(200, {nextOffset: null, done: true, summary})
resposta200(n, env, ja, err) ==
  Some([statusCode |-> 200, nextOffset |-> Null, done |-> TRUE,
        linhasLidas |-> n, enviadas |-> env, jaExistiam |-> ja, erros |-> err])

\* {statusCode: 206, body: {nextOffset: proximoOffset, done: false, summary}}
resposta206(n, prox, env, ja, err) ==
  Some([statusCode |-> 206, nextOffset |-> Some(prox), done |-> FALSE,
        linhasLidas |-> n, enviadas |-> env, jaExistiam |-> ja, erros |-> err])

\* the head of the for loop at offset off: the lote is cut and mapearComLimite
\* starts its coroutines, each calling the worker for its first record - or,
\* past the last record, the final 200
cabecaDoLaco(ls, off, tam, conc, dry, env, ja, err, req) ==
  IF off < Len(ls)
    THEN LET lote == loteDe(ls, off, tam)
             n == Len(lote)
             m == numExecucoes(conc, n)
         IN /\ ipc' = "lote"
            /\ itens' = lote
            /\ limite' = conc
            /\ resultados' = [i \in 1..n |-> Null]
            /\ execucoes' = [k \in 1..m |->
                               [state |-> "awaiting", indiceAtual |-> k - 1]]
            /\ proximoIndice' = m
            /\ claimed' = [i \in 1..n |-> IF i <= m THEN 1 ELSE 0]
            /\ ppc' = "called"
            /\ firstError' = Null /\ poolResult' = Pending
            /\ completed' = <<>>
            /\ enviados' = env + enviadosAoChamar(dry, 0, m)
            /\ requests' = requestsAoChamar(req, dry, off, 0, m)
            /\ resumo' = Null
    ELSE /\ ipc' = "responded"
         /\ resumo' = resposta200(Len(ls), env, ja, err)
         /\ enviados' = env
         /\ requests' = req
         /\ UNCHANGED poolVars

\* the call, up to await mapearComLimite of the first lote
executarEnvioIntegracao ==
  /\ ipc = "idle"
  /\ \E n \in 0..MaxLinhas, tam \in 1..MaxTamanhoLote,
        conc \in 1..MaxConcurrency, soe \in BOOLEAN, dry \in BOOLEAN :
       \E so \in 0..(n + 1) :
         /\ linhas' = [g \in 1..n |-> g]
         /\ startOffset' = so
         /\ tamanhoLote' = tam
         /\ concurrency' = conc
         /\ stopOnError' = soe
         /\ dryRun' = dry
         /\ offset' = Min(so, n)
         /\ jaExistiam' = 0 /\ erros' = 0
         /\ errosDe' = [g \in 1..n |-> 0]
         /\ cabecaDoLaco(linhas', offset', tam, conc, dry, 0, 0, 0,
                         [g \in 1..n |-> 0])
  /\ UNCHANGED <<directVars, httpVars, clockVars, timeoutVars, backoffVars,
                 senderVars, emaVars, legacyVars, asyncVars>>

\* how the request for one record ends
Desfechos == {"exists", "ok", "status", "throw"}

\* what the worker adds to enviados, jaExistiam and erros once the request for
\* its record has ended, and whether it throws.  A status outside 2xx counts
\* at line 101; with stopOnError the throw of line 113 is inside the try, so
\* the catch of line 115 counts at line 116 as well and throws again.
workerCounts(d, soe) ==
  [enviados |-> IF d = "ok" THEN 1 ELSE 0,
   jaExistiam |-> IF d = "exists" THEN 1 ELSE 0,
   erros |-> IF d = "throw" THEN 1
             ELSE IF d = "status" THEN (IF soe THEN 2 ELSE 1)
             ELSE 0,
   throws |-> soe /\ d \in {"status", "throw"}]

\* The promise of a worker call settles and its coroutine goes on: on a value
\* the slot is written and the next index claimed (the worker is called for
\* it), on a throw the coroutine rejects.  Nothing stops the other coroutines.
trabalhadorTermina ==
  /\ ppc = "called"
  /\ \E k \in 1..Len(execucoes), d \in Desfechos :
       /\ execucoes[k].state = "awaiting"
       /\ dryRun => d = "ok"
       /\ LET i == execucoes[k].indiceAtual
              g == offset + i
              nxt == proximoIndice
              w == IF dryRun
                     THEN [enviados |-> 0, jaExistiam |-> 0, erros |-> 0,
                           throws |-> FALSE]
                     ELSE workerCounts(d, stopOnError)
              claims == ~w.throws /\ nxt < Len(itens)
          IN /\ jaExistiam' = jaExistiam + w.jaExistiam
             /\ erros' = erros + w.erros
             /\ errosDe' = [errosDe EXCEPT ![g + 1] = @ + w.erros]
             /\ enviados' = enviados + w.enviados
                  + (IF claims THEN enviadosAoChamar(dryRun, nxt, nxt + 1)
                               ELSE 0)
             /\ requests' = IF claims
                  THEN requestsAoChamar(requests, dryRun, offset, nxt, nxt + 1)
                  ELSE requests
             /\ IF w.throws
                  THEN /\ execucoes' = [execucoes EXCEPT ![k].state = "failed"]
                       /\ firstError' = IF firstError = Null
                                          THEN Some(<<"erro", i>>)
                                          ELSE firstError
                       /\ UNCHANGED <<resultados, completed, proximoIndice,
                                      claimed>>
                  ELSE /\ resultados' = [resultados EXCEPT ![i + 1] =
                                           Some(trabalhador(itens[i + 1], i))]
                       /\ completed' = Append(completed, i)
                       /\ proximoIndice' = proximoIndice + 1
                       /\ execucoes' = [execucoes EXCEPT ![k] =
                            [state |-> IF nxt >= Len(itens) THEN "done"
                                                            ELSE "awaiting",
                             indiceAtual |-> nxt]]
                       /\ claimed' = IF nxt >= Len(itens) THEN claimed
                                     ELSE [claimed EXCEPT ![nxt + 1] = @ + 1]
                       /\ firstError' = firstError
  /\ UNCHANGED <<directVars, httpVars, clockVars, timeoutVars, backoffVars,
                 senderVars, emaVars, legacyVars, asyncVars, ppc, itens,
                 limite, poolResult, ipc, linhas, startOffset, tamanhoLote,
                 concurrency, stopOnError, dryRun, offset, resumo>>

\* await mapearComLimite(...) is over.  Rejected: executarEnvioIntegracao
\* throws.  Resolved: the 206 when the remaining time is within the margin,
\* the break of line 187, or the next turn of the for loop.
loteTermina ==
  /\ ipc = "lote" /\ ppc = "called" /\ poolResult.kind = "pending"
  /\ PromiseAll(execucoes, firstError, resultados) # Null
  /\ LET r == PromiseAll(execucoes, firstError, resultados)[1]
     IN IF r.kind = "rejected"
          THEN /\ ipc' = "rejected"
               /\ poolResult' = r
               /\ UNCHANGED <<ppc, itens, limite, proximoIndice, resultados,
                              execucoes, firstError, claimed, completed,
                              offset, enviados, resumo, requests>>
          ELSE \E tempoNoFim \in BOOLEAN :
                 IF tempoNoFim
                   THEN /\ ipc' = "responded"
                        /\ resumo' = resposta206(Len(linhas),
                                        Min(offset + Len(itens), Len(linhas)),
                                        enviados, jaExistiam, erros)
                        /\ poolResult' = r
                        /\ UNCHANGED <<ppc, itens, limite, proximoIndice,
                                       resultados, execucoes, firstError,
                                       claimed, completed, offset, enviados,
                                       requests>>
                 ELSE IF stopOnError /\ erros > 0 /\ ~dryRun
                   THEN /\ ipc' = "responded"
                        /\ resumo' = resposta200(Len(linhas), enviados,
                                                 jaExistiam, erros)
                        /\ poolResult' = r
                        /\ UNCHANGED <<ppc, itens, limite, proximoIndice,
                                       resultados, execucoes, firstError,
                                       claimed, completed, offset, enviados,
                                       requests>>
                 ELSE /\ offset' = offset + tamanhoLote
                      /\ cabecaDoLaco(linhas, offset', tamanhoLote,
                                      concurrency, dryRun, enviados,
                                      jaExistiam, erros, requests)
  /\ UNCHANGED <<directVars, httpVars, clockVars, timeoutVars, backoffVars,
                 senderVars, emaVars, legacyVars, asyncVars, linhas,
                 startOffset, tamanhoLote, concurrency, stopOnError, dryRun,
                 jaExistiam, erros, errosDe>>

InitIntegracao ==
  /\ InitWith(TRUE) /\ N = 1 /\ batchSize = 0
  /\ HttpIdle /\ PoolIdle /\ ExtraIdle

NextIntegracao ==
  \/ executarEnvioIntegracao
  \/ trabalhadorTermina
  \/ loteTermina

SpecIntegracao == InitIntegracao /\ [][NextIntegracao]_vars

\* ===== src/src/asyncWorker.js: exports.handler, direct mode
\* the handler up to the call of executarEnvioDireto: building the
\* configuration or preparing the file may throw, which the catch turns into
\* FAILED and the callback
asyncHandler ==
  /\ apc = "idle"
  /\ \E threw \in BOOLEAN, callbackUrl \in BOOLEAN :
       IF threw
         THEN /\ apc' = "finished"
              /\ statusFinal' = "FAILED"
              /\ payloadCallback' =
                   IF callbackUrl
                     THEN Some([finalizado |-> TRUE, status |-> "FAILED"])
                     ELSE Null
         ELSE /\ apc' = "preparado"
              /\ UNCHANGED <<statusFinal, payloadCallback>>
  /\ UNCHANGED <<directVars, httpVars, poolVars, clockVars, timeoutVars,
                 backoffVars, senderVars, emaVars, legacyVars, integracaoVars>>

\* resumo = await executarEnvioDireto({...plano.args, ...}): the one call
asyncChamaEnvioDireto ==
  /\ apc = "preparado" /\ pc = "idle"
  /\ executarEnvioDireto

\* the call returned its response object - whatever its statusCode - and the
\* handler goes on to the callback with statusFinal as it was initialised
asyncCallback ==
  /\ apc = "preparado" /\ pc = "responded"
  /\ \E callbackUrl \in BOOLEAN :
       payloadCallback' =
         IF callbackUrl
           THEN Some([finalizado |-> TRUE, status |-> statusFinal])
           ELSE Null
  /\ apc' = "finished"
  /\ UNCHANGED <<directVars, httpVars, poolVars, clockVars, timeoutVars,
                 backoffVars, senderVars, emaVars, legacyVars, integracaoVars,
                 statusFinal>>

NextAsync ==
  \/ asyncHandler
  \/ asyncChamaEnvioDireto
  \/ asyncCallback
  \/ SdaReturnEarly
  \/ SdaSend
  \/ SdaDispatch
  \/ SdaLeftReturn
  \/ SdaRightReturn
  \/ ControllerFatal
  \/ ControllerSingle

SpecAsync == Init /\ [][NextAsync]_vars

\* ===== src/src/core/httpClient.js: computeBackoffWithJitterMs, on its own
MaxAttemptIndex == 8   \* attemptIndex ranges over 1..MaxAttemptIndex
RandomDen == 10        \* Math.random() ranges over 0/RandomDen .. (RandomDen-1)/RandomDen

\* Math.floor(Math.random() * Math.min(500, expo)), Math.random() = rnd / RandomDen
jitterOf(attemptIndex, rnd) ==
  (rnd * Min(JitterCapMs, expoOf(attemptIndex))) \div RandomDen

\* const delayMs = computeBackoffWithJitterMs(attemptNumber)
callComputeBackoff ==
  /\ backoffMs = Null
  /\ backoffMs' = Some(computeBackoffWithJitterMs(attemptIdx,
                                                 jitterOf(attemptIdx, random)))
  /\ UNCHANGED <<directVars, httpVars, poolVars, clockVars, timeoutVars,
                 attemptIdx, random, senderVars, emaVars, legacyVars, moreVars>>

InitBackoff ==
  /\ InitWith(TRUE) /\ N = 1 /\ batchSize = 0
  /\ HttpIdle /\ PoolIdle
  /\ attemptIdx \in 1..MaxAttemptIndex
  /\ random \in 0..(RandomDen - 1)
  /\ backoffMs = Null
  /\ ClockIdle /\ TimeoutIdle /\ SenderIdle /\ EmaIdle /\ LegacyIdle /\ MoreIdle

NextBackoff == callComputeBackoff

SpecBackoff == InitBackoff /\ [][NextBackoff]_vars

\* ===== src/src/utils/flowchDirectSender.js: sendBatchesDirectToFlowch
MaxSenderRecords == 4  \* records.length ranges over 0..MaxSenderRecords
MaxSenderBatch == 5    \* batchSize ranges over -1..MaxSenderBatch
SenderStatuses == {200, 599}   \* normStatus(resp) of a window

\* for (let i = 0; i < arr.length; i += limite) push(arr.slice(i, i + limite))
RECURSIVE dividirFrom(_, _, _)
dividirFrom(arr, limiteLote, from) ==
  IF from < Len(arr)
    THEN <<SubSeq(arr, from + 1, Min(from + limiteLote, Len(arr)))>>
           \o dividirFrom(arr, limiteLote, from + limiteLote)
    ELSE <<>>

\* mutant: a last window shorter than the limit is left out
RECURSIVE dividirFullFrom(_, _, _)
dividirFullFrom(arr, limiteLote, from) ==
  IF from + limiteLote <= Len(arr)
    THEN <<SubSeq(arr, from + 1, from + limiteLote)>>
           \o dividirFullFrom(arr, limiteLote, from + limiteLote)
    ELSE <<>>

dividirEmLotesFullOnly(arr, tamanho) == dividirFullFrom(arr, Max(1, tamanho), 0)

dividirEmLotes(arr, tamanho) == dividirFrom(arr, Max(1, tamanho), 0)

senderResult(batchIndex, payload, code) ==
  [batchIndex |-> batchIndex, size |-> Len(payload), statusCode |-> code]

senderReturn(results) ==
  [totalBatches |-> Len(results), totalRecords |-> Len(todos),
   results |-> results]

\* the call, up to its first await: the fast path when the records fit one
\* window, else the windows are cut and the first one is sent
sendBatchesDirectToFlowch ==
  /\ spc = "idle"
  /\ IF Len(todos) <= senderBatchSize
       THEN /\ spc' = "fast"
            /\ payloads' = <<todos>>
            /\ lotes' = lotes
       ELSE /\ lotes' = dividirEmLotes(todos, senderBatchSize)
            /\ IF lotes' = <<>>
                 THEN /\ spc' = "returned" /\ payloads' = payloads
                 ELSE /\ spc' = "loop" /\ payloads' = <<lotes'[1]>>
  /\ aggregated' = IF spc' = "returned" THEN Some(senderReturn(<<>>))
                                        ELSE aggregated
  /\ UNCHANGED <<directVars, httpVars, poolVars, clockVars, timeoutVars,
                 backoffVars, todos, senderBatchSize, senderResultados,
                 emaVars, legacyVars, moreVars>>

\* fast path: the one enviarLote call settles, the result is returned
senderFastReturn ==
  /\ spc = "fast"
  /\ \E code \in SenderStatuses :
       aggregated' = Some(senderReturn(<<senderResult(1, todos, code)>>))
  /\ spc' = "returned"
  /\ UNCHANGED <<directVars, httpVars, poolVars, clockVars, timeoutVars,
                 backoffVars, todos, senderBatchSize, lotes, senderResultados,
                 payloads, emaVars, legacyVars, moreVars>>

\* loop: the enviarLote call of window i settles and its result is pushed;
\* then the next window is sent, or the results are returned
senderLoopResult ==
  /\ spc = "loop"
  /\ \E code \in SenderStatuses :
       LET i == Len(senderResultados)
       IN senderResultados' =
            Append(senderResultados, senderResult(i + 1, lotes[i + 1], code))
  /\ IF Len(senderResultados') < Len(lotes)
       THEN /\ payloads' = Append(payloads, lotes[Len(senderResultados') + 1])
            /\ spc' = "loop"
            /\ aggregated' = aggregated
       ELSE /\ payloads' = payloads
            /\ spc' = "returned"
            /\ aggregated' = Some(senderReturn(senderResultados'))
  /\ UNCHANGED <<directVars, httpVars, poolVars, clockVars, timeoutVars,
                 backoffVars, todos, senderBatchSize, lotes, emaVars,
                 legacyVars, moreVars>>

InitSender ==
  /\ InitWith(TRUE) /\ N = 1 /\ batchSize = 0
  /\ HttpIdle /\ PoolIdle
  /\ todos \in { [k \in 1..n |-> k] : n \in 0..MaxSenderRecords }
  /\ senderBatchSize \in -1..MaxSenderBatch
  /\ spc = "idle" /\ lotes = <<>> /\ senderResultados = <<>>
  /\ payloads = <<>> /\ aggregated = Null
  /\ ClockIdle /\ TimeoutIdle /\ BackoffIdle /\ EmaIdle /\ LegacyIdle /\ MoreIdle

NextSender ==
  \/ sendBatchesDirectToFlowch
  \/ senderFastReturn
  \/ senderLoopResult

SpecSender == InitSender /\ [][NextSender]_vars

\* ===== src/src/utils/registros.js, lines 360-686: the revision of
\* executarEnvioDireto kept there, one slice in SINGLE_BATCH_MODE
MaxLegacySize == 3     \* resultado.size ranges over 1..MaxLegacySize
AcceptModes == {"optimistic", "strict"}

\* a DeliveryResult: status, the counters of the parsed body, window size
LegacyResults ==
  [statusCode : {200, 400, 599},
   recordsInserted : 0..MaxCount, recordsUpdated : 0..1, recordsDeleted : 0..1,
   received : 0..MaxCount, size : 1..MaxLegacySize]

\* countErrors([resultado])
legacyCountErrors(mode, r) ==
  IF mode = "optimistic"
    THEN (IF r.statusCode = 0 \/ r.statusCode = 599 THEN 1 ELSE 0)
    ELSE (IF isOk(r) THEN 0 ELSE 1)

\* aceitosEste of one resultado (lines 567-610)
legacyAceitosEste(mode, r) ==
  LET byCounters == r.recordsInserted + r.recordsUpdated + r.recordsDeleted
      compatAceitos == IF byCounters = 0
                         THEN (IF r.received > 0 THEN r.received ELSE r.size)
                         ELSE 0
  IN IF mode = "optimistic"
       THEN (IF byCounters > 0 THEN byCounters ELSE r.size)
       ELSE IF isOk(r)
         THEN (IF byCounters > 0 THEN byCounters ELSE compatAceitos)
       ELSE 0

\* what the invocation answers after the slice (lines 612-637)
legacyOutcome(mode, r) ==
  LET aceitos == legacyAceitosEste(mode, r)
  IN [nextOffset |-> offsetInicial + aceitos,
      enviadasAprox |-> Max(0, (offsetInicial + aceitos) - offsetInicial),
      errosBatches |-> legacyCountErrors(mode, r)]

\* the slice is answered; the outcome is taken under either ACCEPT_MODE
legacySlice ==
  /\ legacyOut = Null
  /\ legacyOut' = Some([mode \in AcceptModes |-> legacyOutcome(mode, resultado)])
  /\ UNCHANGED <<directVars, httpVars, poolVars, clockVars, timeoutVars,
                 backoffVars, senderVars, emaVars, resultado, moreVars>>

InitLegacy ==
  /\ InitWith(TRUE) /\ N = 1 /\ batchSize = 0
  /\ HttpIdle /\ PoolIdle
  /\ resultado \in LegacyResults
  /\ legacyOut = Null
  /\ ClockIdle /\ TimeoutIdle /\ BackoffIdle /\ SenderIdle /\ EmaIdle
  /\ MoreIdle

NextLegacy == legacySlice

SpecLegacy == InitLegacy /\ [][NextLegacy]_vars

\* ===== src/src/services/envioDiretoService.js, lines 1813-2145: the
\* revision of executarEnvioDireto with the latency predictor.  Times are in
\* ms; the durations followed keep alpha * ms + (1 - alpha) * etaAvgMs whole.
MaxRecordsEma == 3     \* |registros| ranges over 1..MaxRecordsEma
EtaAlphaPct == 40      \* alpha = 0.4, in hundredths
EtaMultTenths == 11    \* mult = 1.1, in tenths
EtaMinMs == 300        \* etaMin
EntryElapsed == {0, 500}            \* time spent before the loop is entered
SliceDurations == {0, 500, 1000}    \* Date.now() - t0 of a slice
EmaGatewayLimits == {Null, Some(2500), Some(3500)}
EmaSafetyMargin == 1000

emaResponse(status, nextOffsetOut, done) ==
  [statusCode |-> status, nextOffset |-> nextOffsetOut, done |-> done,
   headers |-> IF status = 206 THEN {"Content-Type", "Retry-After"}
                               ELSE {"Content-Type"}]

\* gwLimitMs - margemSegurancaMs - elapsed
budgetAntesDoLote ==
  FiniteOr(apigwSoftTimeoutMs, GatewayLimitMs) - margemSegurancaMs[1] - elapsed

\* etaEstimate(), in tenths of a ms
etaEstimateTenths ==
  LET base == IF etaAvgMs # 0 THEN etaAvgMs
              ELSE IF etaLastMs # 0 THEN etaLastMs ELSE EtaMinMs
  IN Max(EtaMinMs, base) * EtaMultTenths

\* mutant: only an exhausted budget stops the loop
deveCheckpointAntesDoLoteHardOnly == budgetAntesDoLote <= 0

\* !isPrimeiroLoteDestaInvocacao is tested by the caller; this is
\* budgetAntesDoLote <= precisoMs || budgetAntesDoLote <= 0
deveCheckpointAntesDoLote ==
  budgetAntesDoLote * 10 <= etaEstimateTenths \/ budgetAntesDoLote <= 0

\* etaUpdate(ms): the new etaAvgMs
etaUpdate(ms) ==
  IF etaAvgMs # 0
    THEN (EtaAlphaPct * ms + (100 - EtaAlphaPct) * etaAvgMs) \div 100
    ELSE ms

emaUntouched ==
  <<config, batchSugerido, firstBudget, errosBatchesCount, totalBatches,
    skippedDuplicates, budget, sda, lastKind, lastRes, run, hist, httpVars,
    poolVars, apigwSoftTimeoutMs, margemSegurancaMs, timeoutMs,
    SAFE_REMAINING_MS, REQ_OVERHEAD_MS, timeoutVars, backoffVars, senderVars,
    legacyVars, moreVars>>

\* the caller (re-)invokes, at offset 0 or at the nextOffset of the last 206
executarEnvioDiretoEma ==
  /\ pc = "idle" \/ (pc = "responded" /\ response.statusCode = 206)
  /\ offsetInicial' = IF pc = "idle" THEN 0 ELSE response.nextOffset[1]
  /\ elapsed' \in EntryElapsed
  /\ etaAvgMs' = 0 /\ etaLastMs' = 0
  /\ numResultados' = 0 /\ slicesMs' = <<>>
  /\ indice' = Min(offsetInicial', N)
  /\ aceitosTotais' = 0
  /\ indiceAceito' = offsetInicial'
  /\ totais' = [recordsInserted |-> 0, recordsUpdated |-> 0, recordsDeleted |-> 0]
  /\ calls' = <<>>
  /\ pc' = "loop"
  /\ UNCHANGED <<fim, response, emaUntouched>>

\* while (indice < registrosProcessados.length) is false: the final 200
emaFinish ==
  /\ pc = "loop" /\ indice >= N
  /\ response' = emaResponse(200, Null, TRUE)
  /\ pc' = "responded"
  /\ UNCHANGED <<offsetInicial, cursor, totais, calls, elapsed, emaVars,
                 emaUntouched>>

\* not the first slice and the budget does not cover the estimate: 206
emaCheckpointBeforeSlice ==
  /\ pc = "loop" /\ indice < N
  /\ numResultados # 0 /\ deveCheckpointAntesDoLote
  /\ response' = emaResponse(206, Some(indiceAceito), FALSE)
  /\ pc' = "responded"
  /\ UNCHANGED <<offsetInicial, cursor, totais, calls, elapsed, emaVars,
                 emaUntouched>>

\* the slice is cut and sendBatchesDirectToFlowch is awaited
emaSend ==
  /\ pc = "loop" /\ indice < N
  /\ ~(numResultados # 0 /\ deveCheckpointAntesDoLote)
  /\ fim' = Min(indice + batchNominal, N)
  /\ calls' = Append(calls, <<indice, fim' - indice>>)
  /\ pc' = "await"
  /\ UNCHANGED <<offsetInicial, indice, aceitosTotais, indiceAceito, totais,
                 response, elapsed, emaVars, emaUntouched>>

\* the slice is answered after ms: etaUpdate, the accepted count, then the
\* SINGLE_BATCH_MODE answer, the 206 of deveEncerrar, or the next iteration
emaReceive ==
  /\ pc = "await"
  /\ \E ms \in SliceDurations, inserted \in 0..MaxCount :
       LET size == fim - indice
           aceitosNoCiclo == IF inserted > 0 THEN inserted ELSE size
       IN /\ elapsed' = elapsed + ms
          /\ etaLastMs' = ms
          /\ etaAvgMs' = etaUpdate(ms)
          /\ slicesMs' = Append(slicesMs, ms)
          /\ numResultados' = numResultados + 1
          /\ totais' = [totais EXCEPT !.recordsInserted = @ + aceitosNoCiclo]
          /\ aceitosTotais' = aceitosTotais + aceitosNoCiclo
          /\ indiceAceito' = offsetInicial + aceitosTotais'
  /\ indice' = fim
  /\ IF SINGLE_BATCH_MODE
       THEN /\ response' = IF fim < N
                             THEN emaResponse(206, Some(indiceAceito'), FALSE)
                             ELSE emaResponse(200, Null, TRUE)
            /\ pc' = "responded"
       ELSE IF elapsed' >= FiniteOr(apigwSoftTimeoutMs, GatewayLimitMs)
                             - margemSegurancaMs[1]
         THEN /\ response' = emaResponse(206, Some(indiceAceito'), FALSE)
              /\ pc' = "responded"
         ELSE /\ response' = response
              /\ pc' = "loop"
  /\ UNCHANGED <<offsetInicial, fim, calls, emaUntouched>>

InitEma ==
  /\ InitWith(TRUE) \/ InitWith(FALSE)
  /\ N <= MaxRecordsEma
  /\ HttpIdle /\ PoolIdle
  /\ apigwSoftTimeoutMs \in EmaGatewayLimits
  /\ margemSegurancaMs = Some(EmaSafetyMargin)
  /\ timeoutMs = Null /\ SAFE_REMAINING_MS = Null /\ REQ_OVERHEAD_MS = Null
  /\ elapsed = 0
  /\ EmaIdle
  /\ TimeoutIdle /\ BackoffIdle /\ SenderIdle /\ LegacyIdle /\ MoreIdle

NextEma ==
  \/ executarEnvioDiretoEma
  \/ emaFinish
  \/ emaCheckpointBeforeSlice
  \/ emaSend
  \/ emaReceive

SpecEma == InitEma /\ [][NextEma]_vars

\* ================================================================= claims
RECURSIVE CeilLog2(_)
CeilLog2(n) == IF n <= 1 THEN 0 ELSE 1 + CeilLog2((n + 1) \div 2)

Responded == pc = "responded"
\* a top-level slice was resolved in the invocation that just answered
SliceDone == Responded /\ lastRes # Null /\ response.fatal = "none"
sliceLen == fim - offsetInicial
JustDispatched == pc = "running" /\ lastKind # "none"

\* C1: completeness of a run - when an invocation of the run answers
\* done=true, accepted + skippedDuplicates summed over all invocations of the
\* run equals the number of records.
C1_Completeness == (Responded /\ response.done) => runResolved = N

\* C2: every 206 checkpoint carries a nextOffset between the offset the
\* invocation started with and the number of records, whatever the endpoint
\* reported.
C2_NextOffsetInRange ==
  (Responded /\ response.statusCode = 206) =>
     /\ offsetInicial <= response.nextOffset[1]
     /\ response.nextOffset[1] <= N

\* C3: an invocation entered with remaining budget <= 0 and at least one
\* record at or after its offset still issues a call for its first slice.
C3_FirstSliceAlwaysSent ==
  (Responded /\ firstBudget <= 0 /\ offsetInicial < N) => Len(calls) >= 1

\* C4: in single-slice mode an invocation that resolved its one slice answers
\* 206 while a record is left unresolved and answers 200/done only when the
\* records are drained.
C4_SingleSliceOutcome ==
  (SliceDone /\ SINGLE_BATCH_MODE) =>
     /\ offsetInicial + aceitosTotais < N =>
          response.statusCode = 206 /\ ~response.done
     /\ response.done =>
          response.statusCode = 200 /\ response.nextOffset = Null
            /\ offsetInicial + aceitosTotais >= N

\* C5: when the slice of n records resolved only k < n of them, the answer
\* reports nextOffset = offsetInicial + k, so that the unresolved records are
\* sent again.
C5_OffsetAdvancesByResolved ==
  (SliceDone /\ progressoOf(lastRes[1]) < sliceLen) =>
     response.nextOffset = Some(offsetInicial + progressoOf(lastRes[1]))

\* C6: every call of sendDuplicateAware, at every recursion level and after
\* the merge, returns accepted + skippedDuplicates <= the records of its slice.
C6_ProgressAtMostSent ==
  ret # Null => progressoOf(ret[1]) <= retOf[1][2]

SdaShape ==
  \A i \in 1..Len(stack) :
    /\ stack[i].sent >= 1
    /\ i > 1 =>
         /\ stack[i-1].sent >= 2
         /\ stack[i-1].stage \in {"left", "right"}
         /\ stack[i].sent < stack[i-1].sent
         /\ stack[i].sent = IF stack[i-1].stage = "left"
                              THEN stack[i-1].sent \div 2
                              ELSE stack[i-1].sent - stack[i-1].sent \div 2

SizeOneSkipped ==
  (JustDispatched /\ calls[Len(calls)][2] = 1) =>
     /\ ret # Null
     /\ retOf[1] = calls[Len(calls)]
     /\ ret[1].batchesUsed = 1
     /\ (ret[1].accepted = 0 /\ ret[1].fatalError = "none") =>
           ret[1].skippedDuplicates = 1

SizeOneOnce ==
  \A i, j \in 1..Len(calls) : (i < j /\ calls[i][2] = 1) => calls[i] # calls[j]

C8_Terminates ==
  /\ [](SdaShape /\ SizeOneSkipped /\ SizeOneOnce)
  /\ ((pc = "running") ~> (pc = "responded"))

C8_Witness ==
  /\ JustDispatched /\ lastKind \in {"ambiguous", "transport"}
  /\ Len(stack) = 2 /\ stack[1].sent = 4
  /\ ret # Null /\ retOf[1][2] = 1
  /\ ret[1].skippedDuplicates = 1 /\ ret[1].accepted = 0

\* C9 (as claimed): the dispatches beyond the first that resolve a slice of n
\* records number at most a constant multiple (here 2, one per half and
\* level) of ceil(log2 n).
C9_LogExtraCalls ==
  (ret # Null /\ ret[1].batchesUsed >= 1) =>
     ret[1].batchesUsed - 1 <= 2 * CeilLog2(retOf[1][2])

\* C9 (amended): the recursion depth is at most ceil(log2 n), while the
\* dispatches that resolve a slice of n records number at most 2n - 1, that
\* is at most 2n - 2 beyond the first.
C9_LinearCallsLogDepth ==
  /\ (ret # Null /\ retOf[1][2] >= 1) =>
        ret[1].batchesUsed <= 2 * retOf[1][2] - 1
  /\ stack # <<>> => Len(stack) <= CeilLog2(stack[1].sent) + 1

C9_Witness ==
  /\ ret # Null /\ stack = <<>>
  /\ retOf[1][2] = 4 /\ ret[1].batchesUsed = 7

\* C10: an invocation whose slice made zero progress without a fatal error
\* answers 206 (done=false) with nextOffset = offsetInicial and
\* x-suggest-batch-size = max(1, floor(effective / 2)).
C10_ZeroProgressHolds ==
  (SliceDone /\ progressoOf(lastRes[1]) = 0) =>
     /\ response.statusCode = 206 /\ ~response.done
     /\ response.nextOffset = Some(offsetInicial)
     /\ response.suggest = Max(1, batchEfetivo \div 2)

C12_SchemaErrorIsFatal ==
  /\ (JustDispatched /\ lastKind = "schema") =>
        /\ AtResult
        /\ ret[1].fatalError = "schema" /\ progressoOf(ret[1]) = 0
        /\ ret[1].batchesUsed = 1
  /\ (Responded /\ lastKind = "schema") =>
        /\ response.statusCode \notin 200..299
        /\ response.fatal = "schema"

\* C13: a fatal error aborts only with zero progress - when records were
\* accepted or skipped in the invocation before the fatal error was seen, the
\* answer is not FATAL and still reports that progress (on a 206, a
\* nextOffset advanced by it), in single-slice and in multi-slice mode.
C13_ProgressSurvivesFatal ==
  (Responded /\ lastRes # Null /\ lastRes[1].fatalError # "none"
     /\ aceitosTotais > 0) =>
     /\ response.fatal = "none"
     /\ response.statusCode \in {200, 206}
     /\ (response.statusCode = 206 =>
           response.nextOffset = Some(offsetInicial + aceitosTotais))

\* C14 (as claimed): every terminal response (200, 206, 4xx) includes the
\* summary, and every 206 also carries nextOffset and the headers
\* Retry-After, x-batch-size and x-suggest-batch-size.
C14_SummaryInEveryResponse ==
  Responded =>
     /\ response.summary # Null
     /\ (response.statusCode = 206 =>
           /\ response.nextOffset # Null
           /\ {"Retry-After", "x-batch-size", "x-suggest-batch-size"}
                 \subseteq response.headers)

\* C14 (amended): the 200 and the 206 include the summary, whose counts are
\* the accumulators of the invocation; every 206 also carries nextOffset,
\* done=false and the three headers; the FATAL answer carries the same three
\* headers but its body is the upstream diagnostic - no summary, no offset.
C14_SummaryUnlessFatal ==
  Responded =>
     /\ (response.statusCode \in {200, 206} =>
           /\ response.summary # Null
           /\ response.summary[1].recordsInserted = totais.recordsInserted
           /\ response.summary[1].recordsUpdated = totais.recordsUpdated
           /\ response.summary[1].recordsDeleted = totais.recordsDeleted
           /\ response.summary[1].skippedDuplicates = skippedDuplicates
           /\ response.summary[1].errosBatches = errosBatchesCount)
     /\ (response.statusCode = 206 =>
           /\ response.nextOffset # Null /\ ~response.done
           /\ {"Retry-After", "x-batch-size", "x-suggest-batch-size"}
                 \subseteq response.headers)
     /\ (response.statusCode \notin {200, 206} =>
           /\ response.fatal # "none"
           /\ response.summary = Null /\ response.nextOffset = Null
           /\ {"Retry-After", "x-batch-size", "x-suggest-batch-size"}
                 \subseteq response.headers)

C14_Witness ==
  /\ Responded /\ response.statusCode = 400 /\ response.fatal = "schema"
  /\ response.summary = Null /\ Len(calls) = 1

\* C20: the resolution is strictly sequential - at most one request is in
\* flight, and only while no result is pending; and any two requests of an
\* invocation, in the order they were issued, either are a slice and a part
\* of it, or cover disjoint records with the earlier request wholly before
\* the later one (so every call of a left half precedes every call of the
\* right half, and start indices never decrease at a recursion level).
inFlight == Cardinality({i \in 1..Len(stack) : stack[i].stage = "await"})

C20_Sequential ==
  /\ inFlight <= 1
  /\ (inFlight = 1 => Top(stack).stage = "await" /\ ret = Null)
  /\ \A i \in 1..Len(stack) :
        stack[i].stage = "right" => stack[i].leftRes # Null
  /\ \A i, j \in 1..Len(calls) :
        i < j =>
          \/ /\ calls[i][1] <= calls[j][1]
             /\ calls[j][1] + calls[j][2] <= calls[i][1] + calls[i][2]
             /\ calls[j][2] < calls[i][2]
          \/ calls[i][1] + calls[i][2] <= calls[j][1]

C20_Witness ==
  /\ inFlight = 1 /\ Len(calls) = 7
  /\ calls[1] = <<0, 4>> /\ calls[4] = <<1, 1>> /\ calls[5] = <<2, 2>>
  /\ calls[7] = <<3, 1>>

\* ------------------------------------------------------ httpJson claims
\* an attempt ended with a status of {408, 429, 500..599} or with an error of
\* kind ETIMEDOUT, ECONNRESET, EAI_AGAIN, ECONNREFUSED or ENOTFOUND
EndedRetryable(o) ==
  \/ o.type = "response" /\ o.statusCode \in ({408, 429} \cup (500..599))
  \/ o.type = "error" /\ o.code \in {"ETIMEDOUT", "ECONNRESET", "EAI_AGAIN",
                                     "ECONNREFUSED", "ENOTFOUND"}

\* C15: one httpJson call makes at most 1 + maxRetries attempts (3 when
\* HTTP_MAX_RETRIES is unset); an attempt after the first is made only when
\* the previous attempt ended with a retryable status or a transient error;
\* and an attempt that ended otherwise is the last one - its response is the
\* value returned, its error is the error raised.
C15_BoundedRetries ==
  /\ Len(attempts) <= 1 + DEFAULT_MAX_RETRIES
  /\ (HTTP_MAX_RETRIES = Null => Len(attempts) <= 3)
  /\ attemptNumber = Len(attempts)
  /\ \A i \in 2..Len(attempts) :
        /\ attempts[i-1].outcome # Null
        /\ EndedRetryable(attempts[i-1].outcome[1])
  /\ \A i \in 1..Len(attempts) :
        (attempts[i].outcome # Null /\ ~EndedRetryable(attempts[i].outcome[1]))
          => /\ i = Len(attempts)
             /\ settled = attempts[i].outcome
             /\ hpc = IF attempts[i].outcome[1].type = "response"
                        THEN "resolved" ELSE "rejected"

C15_Witness ==
  /\ hpc = "resolved" /\ Len(attempts) = 3 /\ HTTP_MAX_RETRIES = Null
  /\ attempts[1].outcome[1].statusCode = 429
  /\ attempts[2].outcome[1].code = "ECONNRESET"
  /\ settled[1].statusCode = 404

\* C16: when the last allowed attempt (number 1 + maxRetries) ends with a
\* retryable status, httpJson resolves with that response; when it ends with
\* a transient error, httpJson rejects with that error.
C16_Exhaustion ==
  (/\ Len(attempts) = 1 + DEFAULT_MAX_RETRIES
   /\ attempts[Len(attempts)].outcome # Null
   /\ EndedRetryable(attempts[Len(attempts)].outcome[1])) =>
     LET last == attempts[Len(attempts)].outcome
     IN /\ settled = last
        /\ (last[1].type = "response" => hpc = "resolved")
        /\ (last[1].type = "error" => hpc = "rejected" /\ lastError = last)

C16_Witness ==
  /\ hpc = "resolved" /\ Len(attempts) = 3
  /\ attempts[1].outcome[1].code = "ETIMEDOUT"
  /\ attempts[2].outcome[1].statusCode = 500
  /\ settled[1].type = "response" /\ settled[1].statusCode = 429

\* C17: after a retryable response with a parsable Retry-After the delay is
\* exactly that value in ms (seconds * 1000, or the time left until the
\* date), with no jitter; the backoff with jitter is the delay only when the
\* header is absent or unparsable (or the attempt ended with an error); and
\* the next attempt starts no earlier than the delay after the response.
C17_RetryAfterExact ==
  \A i \in 1..Len(attempts) :
    attempts[i].delay # Null =>
      LET a == attempts[i]
          o == a.outcome[1]
          ra == o.retryAfter
          expo == IF i = 1 THEN 250 ELSE IF i = 2 THEN 500 ELSE 1000
      IN /\ (o.type = "response" /\ ra.kind = "seconds" /\ ra.value >= 0
               => a.delay[1] = ra.value * 1000)
         /\ (o.type = "response" /\ ra.kind = "date" /\ ra.value >= a.endedAt
               => a.delay[1] = ra.value - a.endedAt)
         /\ (o.type = "response" /\ ra.kind = "date" /\ ra.value < a.endedAt
               => a.delay[1] = 0)
         /\ (o.type = "error" \/ ra.kind \in {"absent", "empty", "junk"}
               => a.delay[1] >= expo /\ a.delay[1] < expo + Min(500, expo))
         /\ (i < Len(attempts)
               => attempts[i+1].startedAt - a.endedAt >= a.delay[1])

C17_Witness ==
  /\ Len(attempts) = 2
  /\ attempts[1].outcome[1].statusCode = 429
  /\ attempts[1].outcome[1].retryAfter = [kind |-> "seconds", value |-> 2]
  /\ attempts[1].delay = Some(2000)
  /\ attempts[2].startedAt - attempts[1].endedAt >= 2000

\* ------------------------------------------------ mapearComLimite claims
inFlightWorkers ==
  Cardinality({k \in 1..Len(execucoes) : execucoes[k].state = "awaiting"})

\* C18: no index is claimed twice; at most min(limite, itens.length) worker
\* calls are in flight; and when the call returns (no worker failed), every
\* index was claimed once and the array holds worker(itens[i], i) at every
\* index i, whatever the completion order.
C18_OrderedExactlyOnce ==
  /\ \A i \in 1..Len(claimed) : claimed[i] <= 1
  /\ inFlightWorkers <= Min(limite, Len(itens))
  /\ poolResult.kind = "resolved" =>
        /\ firstError = Null
        /\ Len(poolResult.value[1]) = Len(itens)
        /\ \A i \in 1..Len(itens) :
              /\ claimed[i] = 1
              /\ poolResult.value[1][i] = Some(<<itens[i], i - 1>>)
  /\ (ppc = "called" /\ poolResult.kind = "pending" /\ firstError = Null
        /\ inFlightWorkers = 0) => ENABLED poolSettles

C18_Witness ==
  /\ poolResult.kind = "resolved"
  /\ Len(itens) = 3 /\ limite = 2
  /\ completed = <<1, 0, 2>>
  /\ itens = <<"a", "b", "a">>

\* C19: once a worker call has thrown, the call can only reject - with the
\* error of the first call that threw - and delivers no array, also when
\* other indices had completed.
C19_RejectsWithoutPartial ==
  /\ (firstError # Null /\ poolResult.kind # "pending") =>
        /\ poolResult.kind = "rejected"
        /\ poolResult.error = firstError
        /\ poolResult.value = Null
  /\ (firstError # Null /\ poolResult.kind = "pending") => ENABLED poolSettles

C19_Witness ==
  /\ poolResult.kind = "rejected" /\ poolResult.value = Null
  /\ Len(itens) = 3 /\ limite = 2
  /\ completed = <<1>> /\ poolResult.error = Some(<<"erro", 0>>)
  /\ resultados[2] # Null

\* C21: an entry of sendDuplicateAware (top level or recursive) on a non-empty
\* slice with remaining budget <= 0 returns at once, with zero progress and
\* no batch used, without dispatching; in multi-slice mode the controller
\* does not start another slice after it and answers 206.
C21_ExhaustedBudget ==
  /\ [][(AtEntry /\ Top(stack).sent > 0 /\ budget <= 0) =>
          /\ ret' # Null
          /\ progressoOf(ret'[1]) = 0 /\ ret'[1].batchesUsed = 0
          /\ calls' = calls
          /\ stack' = Pop(stack)]_vars
  /\ [][(AtResult /\ enteredExhausted /\ ~SINGLE_BATCH_MODE) =>
          pc' = "responded" /\ response'.statusCode = 206]_vars
  /\ []((Responded /\ enteredExhausted /\ ~SINGLE_BATCH_MODE) =>
          response.statusCode = 206)

\* the budget ran out on the dispatch of a slice of two, so both halves were
\* entered (recursively) with no budget
C21_Witness ==
  /\ Responded /\ ~SINGLE_BATCH_MODE /\ enteredExhausted
  /\ response.statusCode = 206
  /\ calls = << <<0, 2>> >>
  /\ lastRes # Null /\ lastRes[1].batchesUsed = 1

CeilDiv(a, b) == (a + b - 1) \div b

\* C22: in a run in which every dispatch was answered with a success status
\* and as many mutations as the slice has records, nothing is skipped and no
\* slice is split, and when the run has delivered every record and answers
\* done=true the batches reported over its invocations add up to
\* ceil(|R| / batchSize).
C22_CleanRunBatches ==
  /\ cleanRun # Null =>
        /\ skippedDuplicates = 0
        /\ \A i \in 1..Len(stack) : stack[i].stage \in {"enter", "await"}
  /\ (Responded /\ response.done /\ cleanRun # Null /\ runResolved = N) =>
        cleanRun[1] = CeilDiv(N, batchNominal)

\* C23: a dispatch that ends in a transport failure (synthetic 599) is
\* counted as one error in the result of the sub-batch that was sent, with
\* no fatal error and nothing accepted; the step leaves the invocation
\* running and the frames of the enclosing slices, with the results of the
\* halves already resolved, as they were, as well as the consolidated totals;
\* and a merge adds the error counts and keeps the accepted and skipped
\* counts of both halves.
C23_TransportFailureLocal ==
  /\ []((JustDispatched /\ lastKind = "transport") =>
          IF ret # Null
            THEN /\ ret[1].errosBatchesCountDelta = 1
                 /\ ret[1].fatalError = "none"
                 /\ ret[1].accepted = 0
            ELSE /\ Len(stack) >= 2
                 /\ stack[Len(stack) - 1].stage = "left"
                 /\ stack[Len(stack) - 1].errosBatchesCountDelta = 1)
  /\ [][(pc = "running" /\ stack # <<>> /\ Top(stack).stage = "await"
            /\ lastKind' = "transport") =>
          /\ pc' = "running"
          /\ SubSeq(stack', 1, Len(stack) - 1) = SubSeq(stack, 1, Len(stack) - 1)
          /\ UNCHANGED <<totals, cursor, response>>]_vars
  /\ [][(pc = "running" /\ ret # Null /\ stack # <<>>
            /\ Top(stack).stage = "right") =>
          LET f == Top(stack)
          IN /\ ret'[1].accepted = f.leftRes[1].accepted + ret[1].accepted
             /\ ret'[1].skippedDuplicates =
                   f.leftRes[1].skippedDuplicates + ret[1].skippedDuplicates
             /\ ret'[1].errosBatchesCountDelta =
                   f.errosBatchesCountDelta + f.leftRes[1].errosBatchesCountDelta
                     + ret[1].errosBatchesCountDelta
             /\ ret'[1].fatalError = "none"]_vars
  /\ []((Responded /\ response.fatal # "none") =>
          lastKind \in {"schema", "invalidurl"})

\* the call for the right half failed in transport after the left half had
\* been accepted
C23_Witness ==
  /\ JustDispatched /\ lastKind = "transport" /\ ret # Null
  /\ ret[1].errosBatchesCountDelta = 1
  /\ stack # <<>> /\ Top(stack).stage = "right"
  /\ Top(stack).leftRes[1].accepted > 0

\* C25: a slice answered with a success status and total mutations > 0 is
\* accepted whole: the call returns after this one dispatch, without a split,
\* and the progress it credits is the number of records of the slice.
C25_AcceptWholeSlice ==
  (JustDispatched /\ lastKind = "accepted") =>
     /\ ret # Null
     /\ ret[1].batchesUsed = 1 /\ ~ret[1].usedAdaptiveSplit
     /\ progressoOf(ret[1]) = retOf[1][2]

\* C30: at every 206 checkpoint the records from the offset the invocation
\* started with up to nextOffset were all accepted by the endpoint or skipped
\* as duplicate during the invocation, so that every record left unresolved
\* lies at or after nextOffset.
C30_ResolvedPrefix ==
  (Responded /\ response.statusCode = 206) =>
     \A i \in offsetInicial .. (response.nextOffset[1] - 1) : i \in resolved

\* the quantities the statements about the per-call timeout are made of
remainingBudget ==
  FiniteOr(apigwSoftTimeoutMs, 29000)
    - FiniteOr(margemSegurancaMs, EnvOr(SAFE_REMAINING_MS, 4000)) - elapsed
fixedOverhead == Max(50, EnvOr(REQ_OVERHEAD_MS, 200))
callerTimeout == FiniteOr(timeoutMs, 25000)

\* C27 as stated: the per-call timeout is
\* max(800, min(callerTimeout, remainingBudget - fixedOverhead)); it is never
\* below 800 and, whenever remainingBudget - fixedOverhead is above 800,
\* above neither remainingBudget - fixedOverhead nor callerTimeout.
C27_TimeoutSingleFloor ==
  effective # Null =>
    LET t == effective[1].effectiveTimeoutMs
        room == remainingBudget - fixedOverhead
    IN /\ t = Max(800, Min(callerTimeout, room))
       /\ t >= 800
       /\ (room > 800 => t <= room /\ t <= callerTimeout)

\* C27, amended: the per-call timeout is
\* max(800, min(callerTimeout, max(1000, remainingBudget - fixedOverhead)));
\* it is never below 800, never above remainingBudget - fixedOverhead when
\* that is at least 1000, and never above callerTimeout when that is at
\* least 800.
C27_TimeoutTwoFloors ==
  effective # Null =>
    LET t == effective[1].effectiveTimeoutMs
        room == remainingBudget - fixedOverhead
    IN /\ effective[1].budget = remainingBudget
       /\ t = Max(800, Min(callerTimeout, Max(1000, room)))
       /\ t >= 800
       /\ (room >= 1000 => t <= room)
       /\ (callerTimeout >= 800 => t <= callerTimeout)

\* 900 ms are left for the request and the caller allows 5000: the timeout
\* is 1000
C27_Witness ==
  /\ effective # Null
  /\ remainingBudget - fixedOverhead = 900
  /\ callerTimeout = 5000
  /\ effective[1].effectiveTimeoutMs = 1000

\* expo = min(cap, base * 2^(k-1)), base 250 ms and cap 4000 ms
C28_Expo(k) == Min(4000, 250 * 2 ^ (k - 1))

\* C28: without Retry-After the delay after attempt k >= 1 is expo + jitter
\* with 0 <= jitter < min(500, expo): never below expo, never above
\* cap + 500 ms; and expo does not decrease as k grows.
C28_BackoffBounds ==
  /\ backoffMs # Null =>
        LET expo == C28_Expo(attemptIdx)
            jitter == backoffMs[1] - expo
        IN /\ 0 <= jitter /\ jitter < Min(500, expo)
           /\ backoffMs[1] >= expo
           /\ backoffMs[1] <= 4000 + 500
           /\ jitter = (random * Min(500, expo)) \div RandomDen
  /\ \A k \in 1..MaxAttemptIndex : C28_Expo(k) <= C28_Expo(k + 1)

\* the sixth attempt: the exponential part is capped and jitter is added
C28_Witness ==
  /\ backoffMs # Null /\ attemptIdx = 6
  /\ C28_Expo(attemptIdx) = 4000
  /\ backoffMs[1] > 4000 + 400

RECURSIVE Flatten(_)
Flatten(ss) == IF ss = <<>> THEN <<>> ELSE Head(ss) \o Flatten(Tail(ss))

RECURSIVE SumSizes(_)
SumSizes(rs) == IF rs = <<>> THEN 0 ELSE Head(rs).size + SumSizes(Tail(rs))

\* C29: for n > 0 records and window size s (clamped to >= 1) the calls made
\* so far carry consecutive windows of 1..s records that concatenate to a
\* prefix of the input; at return there were exactly ceil(n / s) calls, the
\* windows concatenate to the input, and there is one result per window, in
\* order, whose size is the length of that window (the sizes add up to n).
C29_WindowsPartition ==
  Len(todos) > 0 =>
    LET n == Len(todos)
        s == Max(1, senderBatchSize)
    IN /\ \A k \in 1..Len(payloads) :
             Len(payloads[k]) >= 1 /\ Len(payloads[k]) <= s
       /\ Len(Flatten(payloads)) <= n
       /\ Flatten(payloads) = SubSeq(todos, 1, Len(Flatten(payloads)))
       /\ aggregated # Null =>
             LET results == aggregated[1].results
             IN /\ Len(payloads) = CeilDiv(n, s)
                /\ Flatten(payloads) = todos
                /\ Len(results) = Len(payloads)
                /\ \A k \in 1..Len(results) :
                      /\ results[k].size = Len(payloads[k])
                      /\ results[k].batchIndex = k
                /\ SumSizes(results) = n

\* four records in windows of three: a full window and a last one of one
C29_Witness ==
  /\ aggregated # Null
  /\ Len(todos) = 4 /\ senderBatchSize = 3
  /\ payloads = << <<1, 2, 3>>, <<4>> >>
  /\ Len(aggregated[1].results) = 2

\* C24: for the same slice and the same endpoint response, ACCEPT_MODE
\* optimistic and ACCEPT_MODE strict credit the same progress and answer
\* the same nextOffset; only the error count of the telemetry may differ.
C24_AcceptModeNonInterference ==
  legacyOut # Null =>
    /\ legacyOut[1]["optimistic"].nextOffset = legacyOut[1]["strict"].nextOffset
    /\ legacyOut[1]["optimistic"].enviadasAprox
         = legacyOut[1]["strict"].enviadasAprox

\* exponential moving average (alpha = 0.4) of a sequence of durations,
\* seeded with the first one
RECURSIVE C26_Ema(_)
C26_Ema(durs) ==
  IF Len(durs) = 1 THEN durs[1]
  ELSE (40 * durs[Len(durs)]
          + 60 * C26_Ema(SubSeq(durs, 1, Len(durs) - 1))) \div 100

C26_Remaining ==
  FiniteOr(apigwSoftTimeoutMs, 29000) - margemSegurancaMs[1] - elapsed

\* C26: in multi-slice mode, at the head of the loop before a slice that is
\* not the first of the invocation, when the remaining budget is <= 0 or
\* <= max(etaMin, EMA of the durations of the slices so far) * 1.1, the
\* invocation answers 206 without dispatching the slice; the first slice of
\* an invocation is dispatched whatever the budget; and the average kept is
\* the EMA of the durations as long as none of them was 0 ms.
C26_LatencyCheckBeforeSlice ==
  /\ [][(pc = "loop" /\ indice < N /\ slicesMs # <<>>
            /\ (\/ C26_Remaining <= 0
                \/ C26_Remaining * 10 <= Max(300, C26_Ema(slicesMs)) * 11)) =>
          /\ pc' = "responded"
          /\ response'.statusCode = 206 /\ ~response'.done
          /\ response'.nextOffset = Some(indiceAceito)
          /\ calls' = calls]_vars
  /\ [][(pc = "loop" /\ indice < N /\ slicesMs = <<>>) =>
          /\ pc' = "await"
          /\ calls' = Append(calls, <<indice, Min(indice + batchNominal, N) - indice>>)]_vars
  /\ []((slicesMs # <<>> /\ \A k \in 1..Len(slicesMs) : slicesMs[k] > 0) =>
          etaAvgMs = C26_Ema(slicesMs))

\* the first slice took 1000 ms and 500 ms are left: no second slice
C26_Witness ==
  /\ pc = "responded" /\ ~SINGLE_BATCH_MODE
  /\ response.statusCode = 206
  /\ indice < N /\ calls = << <<0, 1>> >>
  /\ slicesMs = <<1000>> /\ C26_Remaining = 500

\* C31: when a recursive call of sendDuplicateAware returned a fatalError
\* (schema or invalid URL found below the top level), the invocation ends
\* with the fatal response.
C31_FatalBelowPropagates ==
  (Responded /\ fatalBelow # "none") => response.fatal # "none"

\* C32: in multi-slice mode a 206 whose last slice made zero progress after
\* earlier slices of the invocation resolved k > 0 records reports
\* nextOffset = offsetInicial + k.
C32_NextOffsetKeepsProgress ==
  (Responded /\ ~SINGLE_BATCH_MODE /\ response.statusCode = 206
     /\ aceitosTotais > 0 /\ lastRes # Null /\ progressoOf(lastRes[1]) = 0) =>
    response.nextOffset = Some(offsetInicial + aceitosTotais)

\* C33: in multi-slice mode, when the controller goes on to another slice
\* after the result of a top-level slice, the read cursor has strictly
\* advanced.
C33_CursorAdvances ==
  [][(AtResult /\ ~SINGLE_BATCH_MODE /\ pc' = "running") =>
       indice' > indice]_vars

\* C35: a slice whose call ended in a transport failure (synthetic 599) is
\* not counted as skipped duplicate by the result of that call.
C35_TransportFailureNotSkipped ==
  (JustDispatched /\ lastKind = "transport" /\ ret # Null) =>
     ret[1].skippedDuplicates = 0

\* C34: a run that is kept going - re-invoked after every 206 with the returned
\* nextOffset and suggestion, each invocation starting with budget left -
\* eventually answers done=true or FATAL, whatever the endpoint answers.
C34_RunEnds ==
  <>(Responded /\ (response.done \/ response.fatal # "none"))

\* C36: no HTTP attempt starts once the budget of the invocation (gateway
\* limit - safety margin - elapsed) is <= 0: neither the first attempt for a
\* slice nor a retry of httpJson after its backoff or Retry-After delay.
C36_NoAttemptWithoutBudget ==
  \A k \in 1..Len(attempts) : budgetAt(attempts[k].startedAt) > 0

\* the part that holds: the first attempt for a slice starts with budget left
C36_FirstAttemptHasBudget ==
  attempts # <<>> => budgetAt(attempts[1].startedAt) > 0

\* C37: in integration mode with stopOnError, once the worker of a record has
\* failed no coroutine of mapearComLimite claims a further index and no
\* request is sent for a record of the lote that had not been started.
C37_NoClaimAfterFailure ==
  [][(stopOnError /\ firstError # Null) =>
       (claimed' = claimed /\ requests' = requests)]_vars

\* C38: in integration mode every record processed adds exactly 1 to exactly
\* one of enviados, jaExistiam, erros: no record adds 2 to erros, when a lote
\* is over the three counters sum to the records from the effective starting
\* offset to the end of the lote, and in every 200/206 they sum to the records
\* from that offset to the position reached (nextOffset on a 206).
C38_CountersPartition ==
  /\ \A g \in 1..Len(errosDe) : errosDe[g] <= 1
  /\ (ipc = "lote" /\ \A k \in 1..Len(execucoes) : execucoes[k].state = "done") =>
        enviados + jaExistiam + erros =
          Min(offset + Len(itens), Len(linhas)) - Min(startOffset, Len(linhas))
  /\ (ipc = "responded") =>
        resumo[1].enviadas + resumo[1].jaExistiam + resumo[1].erros =
          (IF resumo[1].statusCode = 206 THEN resumo[1].nextOffset[1]
                                         ELSE Len(linhas))
            - Min(startOffset, Len(linhas))

\* the part that holds: the counters reported in a 200/206
C38_ResponseCounters ==
  (ipc = "responded") =>
     resumo[1].enviadas + resumo[1].jaExistiam + resumo[1].erros =
       (IF resumo[1].statusCode = 206 THEN resumo[1].nextOffset[1]
                                      ELSE Len(linhas))
         - Min(startOffset, Len(linhas))

\* C39: the async worker posts status COMPLETED with finalizado=true only when
\* the call of executarEnvioDireto it made answered done=true: after a 206 or
\* a FATAL answer the callback does not say COMPLETED.
C39_CompletedOnlyWhenDone ==
  (apc = "finished" /\ payloadCallback # Null
     /\ payloadCallback[1].status = "COMPLETED"
     /\ payloadCallback[1].finalizado) =>
    (Responded /\ response.done)

====
